---- MODULE Spec2Model ----
(***************************************************************************)
(* Cascading province / city / district / village selection of the         *)
(* Indonesian Maps API documentation page (mapManager, latest version of   *)
(* the script), with its map overlays and its asynchronous fetches.        *)
(*                                                                         *)
(* A handler invocation that is suspended at an `await` is a record in     *)
(* `tasks`; the user may fire further events between the issue of a fetch  *)
(* and its completion, and completions arrive in any order.                *)
(***************************************************************************)
EXTENDS Integers, Sequences, FiniteSets, Bags, TLC

----------------------------------------------------------------------------
(* Bounds of the model *)

\* number of location codes the service knows at each level
NumCodes == 2
\* number of handler invocations that may be suspended at an await at once
MaxTasks == 2
\* number of user events (changes of a control, clicks on reset) in a session
MaxEvents == 4
\* number of points in a boundary payload, over all its rings
MaxPoints == 4
\* number of rings in a multi-polygon boundary payload
MaxRings == 2

----------------------------------------------------------------------------
(* Program constants *)

DEFAULT_ZOOM == 6
ProvinceZoom == 8
CityZoom == 10
DistrictZoom == 12
VillageZoom == 14

----------------------------------------------------------------------------
(* Location codes: opaque identifiers, unique within their level.  0 is    *)
(* the empty value of a control ("" in the page) and the null of           *)
(* selectedLocation.  The list the service returns for a parent code may   *)
(* hold any code of the child level.                                       *)

None == 0
Codes == 1..NumCodes

LevelNames == <<"province", "city", "district", "village">>

\* the handler of each level, and the level of each handler
OpLevel(op) ==
    CASE op = "selectProvince" -> 1
      [] op = "selectCity" -> 2
      [] op = "selectDistrict" -> 3
      [] op = "selectVillage" -> 4
      [] OTHER -> 0

----------------------------------------------------------------------------
(* Coordinates.  The service's coordinate of a code is opaque: base names  *)
(* the code (0: CONFIG.DEFAULT_COORDINATE), dlat/dlng an offset from it in *)
(* hundredths of a degree.                                                 *)

Coord(base, dlat, dlng) == [base |-> base, dlat |-> dlat, dlng |-> dlng]
DEFAULT_COORDINATE == Coord(0, 0, 0)
CoordOf(code) == Coord(code, 0, 0)

\* (Math.random() - 0.5) * 0.1 lies in [-0.05, 0.05): the two extreme draws
DistrictOffsets == {<<-5, -5>>, <<4, 4>>}
\* (Math.random() - 0.5) * 0.2 lies in [-0.1, 0.1): the two extreme draws
VillageOffsets == {<<-10, -10>>, <<9, 9>>}

----------------------------------------------------------------------------
(* Outcomes of a request to the service *)

\* throw: transport error, non-2xx status or non-JSON body (fetchData throws)
\* fail: a body with success:false, or without data
\* nocoord: success with data whose lat/lng do not parse to numbers
\* ok: success with data and coordinates
GeoOutcomes == {"throw", "fail", "nocoord", "ok"}
ListOutcomes == {"throw", "fail", "ok"}

\* Shapes of geoData.path, by the branch of show*Boundary they take
PathKinds == {"absent", "badjson", "empty", "twopoint", "triangle"}

----------------------------------------------------------------------------
(* Values *)

Null == [null |-> TRUE]

MarkerDesc(level, code, pos) ==
    [kind |-> "marker", level |-> level, code |-> code, pos |-> pos]
BoundaryDesc(level, code) ==
    [kind |-> "boundary", level |-> level, code |-> code, pos |-> CoordOf(code)]

\* a reference held by a global variable to a Leaflet layer object;
\* live: the object is on the map
LayerRef(desc) == [desc |-> desc, live |-> TRUE]

Placeholder == [kind |-> "placeholder", parent |-> None]
Loading == [kind |-> "loading", parent |-> None]
ErrorOption == [kind |-> "error", parent |-> None]
OptionList(parent) == [kind |-> "list", parent |-> parent]

\* a <select> element: its options, its disabled flag and its value
ClearedSelector == [opts |-> Placeholder, disabled |-> TRUE, value |-> None]

NullLocation == [province |-> None, city |-> None, district |-> None, village |-> None]

VARIABLES
    mapInit,           \* the global `map` holds a Leaflet map
    view,              \* the map's centre and zoom
    mapLayers,         \* bag of the layers currently on the map
    layers,            \* the six global layer variables
    selectedLocation,  \* the global selectedLocation
    provinceSelector,  \* #province-selector
    selectors,         \* #city-selector, #district-selector, #village-selector
    info,              \* #province-info and #province-info-content
    tasks,             \* bag of the handler invocations suspended at an await
    events,            \* number of user events so far
    last,              \* outcome of resetMap when the step just taken ran it
    geoPath,           \* the geoData.path handed to show*Boundary
    polygonsOut,       \* the local `polygons` of show*Boundary when it ended
    outcome,           \* how the last call of show*Boundary ended
    fetchCall,         \* the call of apiService.fetchData under way
    server,            \* how the service answers that call
    traffic,           \* calls of fetchData and HTTP requests so far
    script2,           \* the globals and page of the version with toggles
    table,             \* the provinces table and the loop that fills it
    demo,              \* the API demo panel and its requests
    debounced          \* a function wrapped by utils.debounce, and the clock

vars == <<mapInit, view, mapLayers, layers, selectedLocation, provinceSelector,
          selectors, info, tasks, events, last, geoPath, polygonsOut, outcome,
          fetchCall, server, traffic, script2, table, demo, debounced>>

\* the record of a direct call of show*Boundary
callVars == <<geoPath, polygonsOut, outcome>>

\* the state of apiService.fetchData taken alone, and of the version of the
\* script with boundary toggles
unitVars == <<fetchCall, server, traffic, script2, table, demo, debounced>>

LayerVars == {"currentProvinceLayer", "currentCityLayer", "currentDistrictLayer",
              "currentVillageLayer", "provinceBoundariesLayer", "cityBoundariesLayer"}

\* the identifiers the script declares at top level (let / const)
DeclaredGlobals == LayerVars \cup {"map", "provincesData", "chartInstances",
                                   "selectedLocation", "CONFIG", "utils",
                                   "apiService", "mapManager", "demoManager",
                                   "visualizationManager"}

\* the program state as one record, for the handlers to transform
World ==
    [mapInit |-> mapInit, view |-> view, mapLayers |-> mapLayers, layers |-> layers,
     selectedLocation |-> selectedLocation, provinceSelector |-> provinceSelector,
     selectors |-> selectors, info |-> info, threw |-> FALSE]

CommitWorld(w) ==
    /\ mapInit' = w.mapInit
    /\ view' = w.view
    /\ mapLayers' = w.mapLayers
    /\ layers' = w.layers
    /\ selectedLocation' = w.selectedLocation
    /\ provinceSelector' = w.provinceSelector
    /\ selectors' = w.selectors
    /\ info' = w.info

Commit(w) == CommitWorld(w) /\ UNCHANGED <<callVars, unitVars>>

----------------------------------------------------------------------------
(* Leaflet: layers on the map *)

\* removeLayer with the removal forgotten
removeLayerSkipped(w, name) == w

\* map.removeLayer(<name>): takes the referenced object off the map if it
\* is on it; the variable keeps its reference
removeLayer(w, name) ==
    LET ref == w.layers[name] IN
    IF ref # Null /\ ref.live
    THEN [w EXCEPT !.mapLayers = @ (-) SetToBag({ref.desc}),
                   !.layers[name] = [ref EXCEPT !.live = FALSE]]
    ELSE w

\* if (<name>) { map.removeLayer(<name>); }
removeIfSet(w, name) ==
    IF w.layers[name] # Null THEN removeLayer(w, name) ELSE w

\* if (<name>) { map.removeLayer(<name>); <name> = null; }
removeAndNull(w, name) ==
    IF w.layers[name] # Null
    THEN [removeLayer(w, name) EXCEPT !.layers[name] = Null]
    ELSE w

\* <name> = L.marker(...).addTo(map)  /  <name> = L.polygon(...).addTo(map)
addLayer(w, name, desc) ==
    [w EXCEPT !.mapLayers = @ (+) SetToBag({desc}),
              !.layers[name] = LayerRef(desc)]

\* setView with the move of the viewport forgotten
setViewSkipped(w, center, zoom) == w

\* map.setView(center, zoom)
setView(w, center, zoom) ==
    [w EXCEPT !.view = [center |-> center, zoom |-> zoom]]

----------------------------------------------------------------------------
(* Selector controls *)

clearVillageSelector(w) ==
    [w EXCEPT !.selectors["village"] = ClearedSelector]

clearDistrictSelector(w) ==
    clearVillageSelector([w EXCEPT !.selectors["district"] = ClearedSelector])

clearCitySelector(w) ==
    clearDistrictSelector([w EXCEPT !.selectors["city"] = ClearedSelector])

\* populate<Level>Selector(code), up to its await of the list request.
\* The result's `threw` stays FALSE; `fetching` tells whether a request
\* was issued.
populateStart(w, sel, code) ==
    IF code = None
    THEN CASE sel = "city" -> clearCitySelector(w)
           [] sel = "district" -> clearDistrictSelector(w)
           [] OTHER -> clearVillageSelector(w)
    ELSE [w EXCEPT !.selectors[sel] =
                       [opts |-> Loading, disabled |-> TRUE, value |-> None]]

\* populate<Level>Selector(code), from the completion of the list request
populateResume(w, sel, code, r) ==
    CASE r = "ok" ->
            [w EXCEPT !.selectors[sel] =
                 [opts |-> OptionList(code), disabled |-> FALSE, value |-> None]]
      [] r = "throw" ->
            [w EXCEPT !.selectors[sel] =
                 [opts |-> ErrorOption, disabled |-> @.disabled, value |-> None]]
      [] OTHER -> w

----------------------------------------------------------------------------
(* mapManager.resetMap *)

\* lines 732-747: the four markers
resetMarkers(w) ==
    removeAndNull(removeAndNull(removeAndNull(removeAndNull(w,
        "currentProvinceLayer"), "currentCityLayer"),
        "currentDistrictLayer"), "currentVillageLayer")

\* lines 759-801: what follows the reads of provinceBoundaryLayer and
\* cityBoundaryLayer (which, were they declared, hold no layer)
resetRest(w) ==
    LET w1 == [w EXCEPT !.selectedLocation = NullLocation]
        w2 == [w1 EXCEPT !.selectors =
                  [s \in {"city", "district", "village"} |-> ClearedSelector]]
        w3 == [w2 EXCEPT !.info.display = FALSE]
    IN removeAndNull(w3, "cityBoundariesLayer")

\* resetMap without its first statement, map.setView(...)
resetMapKeepsView(w) ==
    IF ~w.mapInit
    THEN [w EXCEPT !.threw = TRUE]
    ELSE [resetMarkers(w) EXCEPT !.threw = TRUE]

\* The result's `threw` tells whether the call ended in an exception:
\* a TypeError at map.setView while `map` is undefined, a ReferenceError
\* at the first read of an identifier the script never declares.
resetMap(w) ==
    IF ~w.mapInit
    THEN [w EXCEPT !.threw = TRUE]
    ELSE LET w1 == resetMarkers(setView(w, DEFAULT_COORDINATE, DEFAULT_ZOOM))
         IN IF {"provinceBoundaryLayer", "cityBoundaryLayer"} \subseteq DeclaredGlobals
            THEN resetRest(w1)
            ELSE [w1 EXCEPT !.threw = TRUE]

----------------------------------------------------------------------------
(* JSON values of a boundary payload (geoData.path).  Every value is a      *)
(* record of the same shape: t its kind, n its number, items its elements. *)

J(t, n, items) == [t |-> t, n |-> n, items |-> items]
Num(n) == J("num", n, <<>>)
\* the string whose text is the number n
NumStr(n) == J("numstr", n, <<>>)
NullV == J("null", 0, <<>>)
Undefined == J("undefined", 0, <<>>)
EmptyStr == J("empty", 0, <<>>)
BoolTrue == J("bool", 1, <<>>)
\* a string that is neither a number nor JSON text
Text == J("text", 0, <<>>)
NaN == J("nan", 0, <<>>)
\* an object that is not an array
ObjectV == J("object", 0, <<>>)
Arr(items) == J("arr", 0, items)
\* the string JSON.stringify(v)
JsonText(v) == J("jsontext", 0, <<v>>)

\* global isNaN(c): Number(c) is NaN
RECURSIVE isNaN(_)
isNaN(c) ==
    CASE c.t \in {"num", "numstr", "null", "empty", "bool"} -> FALSE
      [] c.t = "arr" ->
            IF Len(c.items) = 0 THEN FALSE
            ELSE IF Len(c.items) > 1 THEN TRUE
            ELSE CASE c.items[1].t \in {"null", "undefined"} -> FALSE
                   [] c.items[1].t = "bool" -> TRUE
                   [] OTHER -> isNaN(c.items[1])
      [] OTHER -> TRUE

\* parseFloat(c): the number at the start of String(c), or NaN
RECURSIVE parseFloat(_)
parseFloat(c) ==
    CASE c.t \in {"num", "numstr"} -> Num(c.n)
      [] c.t = "arr" ->
            IF Len(c.items) = 0 \/ c.items[1].t \in {"null", "undefined"}
            THEN NaN
            ELSE parseFloat(c.items[1])
      [] OTHER -> NaN

\* a !== b on two results of parseFloat
StrictNotEqual(a, b) == a.t = "nan" \/ b.t = "nan" \/ a # b

\* !v
Falsy(v) == v.t \in {"undefined", "null", "empty", "nan"} \/ v = Num(0)

----------------------------------------------------------------------------
(* The normalization inside showProvinceBoundary / showCityBoundary *)

\* Array.isArray(pt) && pt.length === 2 && !isNaN(pt[0]) && !isNaN(pt[1])
ValidPoint(pt) ==
    /\ pt.t = "arr"
    /\ Len(pt.items) = 2
    /\ ~isNaN(pt.items[1])
    /\ ~isNaN(pt.items[2])

\* [parseFloat(pt[0]), parseFloat(pt[1])]
CoercePoint(pt) == Arr(<<parseFloat(pt.items[1]), parseFloat(pt.items[2])>>)

\* poly.filter(...) then coords.map(...)
cleanCoords(items) ==
    LET kept == SelectSeq(items, ValidPoint)
    IN [i \in 1..Len(kept) |-> CoercePoint(kept[i])]

\* closeRing with the push of the first point forgotten
closeRingSkipped(coords) == coords

\* if (first[0] !== last[0] || first[1] !== last[1]) coords.push([first[0], first[1]])
closeRing(coords) ==
    LET first == coords[1]
        last_ == coords[Len(coords)]
    IN IF \/ StrictNotEqual(first.items[1], last_.items[1])
          \/ StrictNotEqual(first.items[2], last_.items[2])
       THEN Append(coords, Arr(<<first.items[1], first.items[2]>>))
       ELSE coords

\* fewest points of a ring that is kept
MinRingPoints == 3

\* ringOf with the test of the number of points forgotten
ringOfAnyLength(items) ==
    LET coords == cleanCoords(items)
    IN IF coords = <<>> THEN <<>> ELSE closeRing(coords)

\* the ring made of one polygon's points; <<>> stands for the null of a
\* polygon with fewer than 3 points
ringOf(items) ==
    LET coords == cleanCoords(items)
    IN IF Len(coords) < MinRingPoints THEN <<>> ELSE closeRing(coords)

\* JSON.parse(text) / the typeof and Array.isArray tests on geoData.path:
\* "value" with the array to normalize, or "return" (warn and return)
parsePath(path) ==
    CASE path.t = "jsontext" -> [kind |-> "value", value |-> path.items[1]]
      [] path.t = "numstr" -> [kind |-> "value", value |-> Num(path.n)]
      [] path.t = "arr" -> [kind |-> "value", value |-> path]
      [] OTHER -> [kind |-> "return", value |-> Undefined]

\* Array.isArray(p[0][0]): "multi", "single", or "throw" when p[0] is
\* undefined or null (TypeError)
shapeOf(p) ==
    LET e0 == IF p.t = "arr" /\ Len(p.items) > 0 THEN p.items[1] ELSE Undefined
    IN IF e0.t \in {"undefined", "null"} THEN "throw"
       ELSE IF e0.t = "arr" /\ Len(e0.items) > 0 /\ e0.items[1].t = "arr"
            THEN "multi"
            ELSE "single"

\* the local `polygons` and how the function left its try block:
\* "skip"    geoData.path is falsy, nothing is done
\* "return"  a return after a warning (unparsable, unrecognized, no polygon)
\* "caught"  a TypeError, caught by the outer catch
\* "draw"    L.polygon(polygons, ...) is called
normalize(path) ==
    IF Falsy(path) THEN [kind |-> "skip", polygons |-> <<>>]
    ELSE LET parsed == parsePath(path)
             p == parsed.value
         IN IF parsed.kind = "return" THEN [kind |-> "return", polygons |-> <<>>]
            ELSE IF shapeOf(p) = "throw" THEN [kind |-> "caught", polygons |-> <<>>]
            ELSE IF shapeOf(p) = "multi"
            THEN IF \E i \in 1..Len(p.items) : p.items[i].t # "arr"
                 THEN [kind |-> "caught", polygons |-> <<>>]
                 ELSE LET rings == [i \in 1..Len(p.items) |-> ringOf(p.items[i].items)]
                          kept == SelectSeq(rings, LAMBDA r : r # <<>>)
                      IN [kind |-> IF kept = <<>> THEN "return" ELSE "draw",
                          polygons |-> kept]
            ELSE LET coords == cleanCoords(p.items)
                 IN IF Len(coords) >= MinRingPoints
                    THEN [kind |-> "draw", polygons |-> <<closeRing(coords)>>]
                    ELSE [kind |-> "return", polygons |-> <<>>]

\* a ring holds a NaN coordinate
HasNaN(ring) ==
    \E i \in 1..Len(ring) : ring[i].items[1].t = "nan" \/ ring[i].items[2].t = "nan"

\* L.polygon(polygons, ...).addTo(map) returns a layer: Leaflet's LatLng
\* raises an Error for a NaN coordinate, which the outer catch absorbs
Accepted(polygons) == \A i \in 1..Len(polygons) : ~HasNaN(polygons[i])

\* a ring list as a native payload
AsPath(polygons) == Arr([i \in 1..Len(polygons) |-> Arr(polygons[i])])

----------------------------------------------------------------------------
(* mapManager.showProvinceBoundary / showCityBoundary *)

Point(x, y) == Arr(<<Num(x), Num(y)>>)

\* a payload of each shape of geoData.path that the handlers meet
PayloadOf(pk) ==
    CASE pk = "absent" -> Undefined
      [] pk = "badjson" -> Text
      [] pk = "empty" -> Arr(<<>>)
      [] pk = "twopoint" -> Arr(<<Arr(<<Point(0, 0), Point(1, 0)>>)>>)
      [] OTHER -> JsonText(Arr(<<Point(0, 0), Point(1, 0), Point(0, 1)>>))

\* TRUE when the payload yields at least one ring to draw
Renderable(pk) ==
    LET n == normalize(PayloadOf(pk))
    IN n.kind = "draw" /\ Accepted(n.polygons)

\* show<Level>Boundary(geoData) with geoData.path = path
showBoundaryPath(w, name, level, code, path) ==
    LET n == normalize(path)
    IN IF n.kind = "skip"
       THEN w
       ELSE LET w1 == removeIfSet(w, name)
            IN IF n.kind = "draw" /\ Accepted(n.polygons)
               THEN addLayer(w1, name, BoundaryDesc(level, code))
               ELSE w1

showBoundary(w, name, level, code, pk) ==
    showBoundaryPath(w, name, level, code, PayloadOf(pk))

showProvinceBoundary(w, code, pk) ==
    showBoundary(w, "provinceBoundariesLayer", "province", code, pk)

showCityBoundary(w, code, pk) ==
    showBoundary(w, "cityBoundariesLayer", "city", code, pk)

----------------------------------------------------------------------------
(* Suspended handler invocations *)

\* op, code: the handler and its argument; pc: the request it awaits;
\* city: the city whose coordinate a district or village handler asked for;
\* sup: a selection was made at a shallower level since this invocation
\* started; owner: the city that was selected when a district or village
\* handler was called; reset: resetMap has run since this invocation started
\* (all three kept for the statement of the claims only, no handler reads
\* them)
Task(op, code, pc) ==
    [op |-> op, code |-> code, pc |-> pc, city |-> None, sup |-> FALSE,
     reset |-> FALSE,
     owner |-> IF op \in {"selectDistrict", "selectVillage"}
               THEN selectedLocation.city ELSE None]

Put(ts, t) == ts (+) SetToBag({t})
Take(ts, t) == ts (-) SetToBag({t})

\* a selection at level `depth` is issued
Supersede(ts, depth) ==
    LET mark(t) == IF OpLevel(t.op) > depth THEN [t EXCEPT !.sup = TRUE] ELSE t
    IN BagOfAll(mark, ts)

\* resetMap runs
MarkReset(ts) ==
    LET mark(t) == [t EXCEPT !.reset = TRUE]
    IN BagOfAll(mark, ts)

\* `last`: "returned" / "threw" when the step just taken ran resetMap,
\* "none" otherwise
ResetOutcome(w) == IF w.threw THEN "threw" ELSE "returned"

----------------------------------------------------------------------------
(* The synchronous part of each select handler, up to its first await *)

\* selectedLocation.province = provinceCode; .city = .district = .village = null
storeProvince(w, code) ==
    [w EXCEPT !.selectedLocation =
        [province |-> code, city |-> None, district |-> None, village |-> None]]

\* storeCity with the reset of the district field forgotten
storeCityKeepDistrict(w, code) ==
    [w EXCEPT !.selectedLocation.city = code,
              !.selectedLocation.village = None]

\* selectedLocation.city = cityCode; .district = .village = null
storeCity(w, code) ==
    [w EXCEPT !.selectedLocation.city = code,
              !.selectedLocation.district = None,
              !.selectedLocation.village = None]

\* selectedLocation.district = districtCode; .village = null
storeDistrict(w, code) ==
    [w EXCEPT !.selectedLocation.district = code,
              !.selectedLocation.village = None]

\* selectedLocation.village = villageCode
storeVillage(w, code) ==
    [w EXCEPT !.selectedLocation.village = code]

selectProvinceCall(w, code) ==
    IF code = None
    THEN LET w1 == resetMap(w)
         IN IF w1.threw THEN w1 ELSE clearCitySelector(w1)
    ELSE storeProvince(
            [w EXCEPT !.info = [content |-> "loading", code |-> None, display |-> TRUE]],
            code)

selectCityCall(w, code) ==
    IF code = None
    THEN storeCity(clearDistrictSelector(removeAndNull(w, "currentCityLayer")), None)
    ELSE storeCity(w, code)

selectDistrictCall(w, code) ==
    IF code = None
    THEN storeDistrict(clearVillageSelector(removeAndNull(w, "currentDistrictLayer")), None)
    ELSE storeDistrict(w, code)

selectVillageCall(w, code) ==
    IF code = None
    THEN storeVillage(removeAndNull(w, "currentVillageLayer"), None)
    ELSE storeVillage(w, code)

----------------------------------------------------------------------------
(* The continuations of the select handlers *)

\* provinceGeoResume where a payload that yields no boundary ends the handler
provinceGeoResumeBoundaryAborts(w, code, r, pk) ==
    IF r = "ok" /\ Renderable(pk)
    THEN populateStart(
            showProvinceBoundary(
                [setView(addLayer(removeIfSet(w, "currentProvinceLayer"),
                                  "currentProvinceLayer",
                                  MarkerDesc("province", code, CoordOf(code))),
                         CoordOf(code), ProvinceZoom)
                    EXCEPT !.info = [content |-> "info", code |-> code, display |-> TRUE]],
                code, pk),
            "city", code)
    ELSE w

\* selectProvince from the completion of getProvinceGeo to the await inside
\* populateCitySelector; `fetching` in the result: that await was reached
provinceGeoResume(w, code, r, pk) ==
    CASE r = "throw" ->
            [w EXCEPT !.info.content = "error", !.info.code = None]
      [] r = "ok" ->
            LET w1 == removeIfSet(w, "currentProvinceLayer")
                w2 == addLayer(w1, "currentProvinceLayer",
                               MarkerDesc("province", code, CoordOf(code)))
                w3 == setView(w2, CoordOf(code), ProvinceZoom)
                w4 == [w3 EXCEPT !.info =
                          [content |-> "info", code |-> code, display |-> TRUE]]
                w5 == showProvinceBoundary(w4, code, pk)
            IN populateStart(w5, "city", code)
      [] OTHER -> w

\* cityGeoResume where a response that cannot be shown takes the markers of
\* all levels off the map
cityGeoResumeFailureClearsMap(w, code, r, pk) ==
    CASE r = "ok" ->
            LET w1 == removeIfSet(w, "currentCityLayer")
                w2 == addLayer(w1, "currentCityLayer",
                               MarkerDesc("city", code, CoordOf(code)))
                w3 == setView(w2, CoordOf(code), CityZoom)
                w4 == showCityBoundary(w3, code, pk)
            IN populateStart(w4, "district", code)
      [] OTHER -> resetMarkers(w)

\* selectCity from the completion of getCityGeo to the await inside
\* populateDistrictSelector
cityGeoResume(w, code, r, pk) ==
    CASE r = "ok" ->
            LET w1 == removeIfSet(w, "currentCityLayer")
                w2 == addLayer(w1, "currentCityLayer",
                               MarkerDesc("city", code, CoordOf(code)))
                w3 == setView(w2, CoordOf(code), CityZoom)
                w4 == showCityBoundary(w3, code, pk)
            IN populateStart(w4, "district", code)
      [] OTHER -> w

\* selectDistrict / selectVillage from the completion of the getCityGeo of
\* the owning city.  A response without usable coordinates gives NaN, which
\* L.marker rejects with an exception after the old marker was taken off.
approxMarkerResume(w, name, level, code, city, r, dlat, dlng, zoom) ==
    CASE r = "ok" ->
            LET pos == Coord(city, dlat, dlng)
                w1 == removeIfSet(w, name)
                w2 == addLayer(w1, name, MarkerDesc(level, code, pos))
            IN setView(w2, pos, zoom)
      [] r = "nocoord" -> removeIfSet(w, name)
      [] OTHER -> w

\* districtCityGeoResume zooming no closer than a city selection does
districtCityGeoResumeAtCityZoom(w, code, city, r, dlat, dlng) ==
    LET w1 == approxMarkerResume(w, "currentDistrictLayer", "district", code,
                                 city, r, dlat, dlng, CityZoom)
    IN IF r = "ok" THEN populateStart(w1, "village", code) ELSE w1

districtCityGeoResume(w, code, city, r, dlat, dlng) ==
    LET w1 == approxMarkerResume(w, "currentDistrictLayer", "district", code,
                                 city, r, dlat, dlng, DistrictZoom)
    IN IF r = "ok" THEN populateStart(w1, "village", code) ELSE w1

villageCityGeoResume(w, code, city, r, dlat, dlng) ==
    approxMarkerResume(w, "currentVillageLayer", "village", code,
                       city, r, dlat, dlng, VillageZoom)

----------------------------------------------------------------------------
(* apiService.fetchData and the version of the script with boundary        *)
(* toggles, before anything has called them                                *)

\* no call of fetchData has been made
IdleCall == [endpoint |-> "", pc |-> "idle", result |-> Undefined]
NoAnswer == [transport |-> "none", status |-> 0, body |-> Undefined]

\* src/script.js, second version, as loaded: the document not ready, nothing
\* selected, both toggles unchecked, no boundary drawn, and neither
\* provinceBoundaryLayer nor cityBoundaryLayer in existence (no statement
\* declares them; an assignment would create them).  Of selectedLocation the
\* province and city fields are kept, of the controls whether the province
\* list has arrived and whether the city control is enabled.
Loaded2 ==
    [ready |-> FALSE,
     provincesLoaded |-> FALSE,
     selectedLocation |-> [province |-> None, city |-> None],
     checked |-> [b \in {"province", "city"} |-> FALSE],
     implicitGlobals |-> {},
     boundary |-> [b \in {"province", "city"} |-> None],
     cityEnabled |-> FALSE,
     pending |-> EmptyBag,
     last |-> "none"]

\* #provinces-table-body before loadProvincesTable has an answer: no row,
\* loadDetailedProvinceData not called
\* rows: the state of the three detail cells of each row; i: the loop
\* variable; waiting: the rows whose geo request is unresolved
NoTable == [rows |-> <<>>, pc |-> "idle", i |-> 0, waiting |-> {}]

\* the demo panel before any click on #try-endpoint: nothing shown, no
\* request under way
\* output, badge: what #response-output and #response-status show, and for
\* which click; selected: the value of #endpoint-select
DemoIdle ==
    [output |-> [kind |-> "empty", click |-> 0],
     badge |-> [kind |-> "empty", click |-> 0],
     selected |-> "/provinsi",
     pending |-> {}, clicks |-> 0]

\* a debounced function that has not been called: `timeout` undefined (0),
\* no timer pending in the browser, the clock at 0.  lastCall and burst (the
\* calls of the wrapper since func last ran) serve the claims only.
NotCalled ==
    [timeout |-> 0, timers |-> {}, nextId |-> 1, now |-> 0,
     lastCall |-> [at |-> 0, args |-> 0], burst |-> 0]

InitUnits ==
    /\ fetchCall = IdleCall
    /\ server = NoAnswer
    /\ traffic = [calls |-> 0, requests |-> 0]
    /\ script2 = Loaded2
    /\ table = NoTable
    /\ demo = DemoIdle
    /\ debounced = NotCalled

----------------------------------------------------------------------------
(* Initial state: the script has been loaded, the document is not ready *)

NoView == [center |-> Coord(-1, 0, 0), zoom |-> 0]

Init ==
    /\ mapInit = FALSE
    /\ view = NoView
    /\ mapLayers = EmptyBag
    /\ layers = [n \in LayerVars |-> Null]
    /\ selectedLocation = NullLocation
    /\ provinceSelector = [loaded |-> FALSE, value |-> None]
    /\ selectors = [s \in {"city", "district", "village"} |-> ClearedSelector]
    /\ info = [content |-> "empty", code |-> None, display |-> FALSE]
    /\ tasks = EmptyBag
    /\ events = 0
    /\ last = "none"
    /\ geoPath = Undefined
    /\ polygonsOut = <<>>
    /\ outcome = "none"
    /\ InitUnits

----------------------------------------------------------------------------
(* Page events *)

\* DOMContentLoaded: mapManager.init() creates the map and starts
\* loadProvincesListOnly; the listeners are attached
DOMContentLoaded ==
    /\ ~mapInit
    /\ mapInit' = TRUE
    /\ view' = [center |-> DEFAULT_COORDINATE, zoom |-> DEFAULT_ZOOM]
    /\ tasks' = Put(tasks, Task("loadProvincesListOnly", None, "list"))
    /\ last' = "none"
    /\ UNCHANGED <<mapLayers, layers, selectedLocation, provinceSelector, selectors,
                   info, events, callVars, unitVars>>

\* loadProvincesListOnly from the completion of getProvinces
\* loadProvincesListOnly asking for the geo data of a province as soon as
\* the list has arrived
ResumeProvincesListEager(t, r) ==
    /\ t.op = "loadProvincesListOnly"
    /\ provinceSelector' = IF r = "ok" THEN [loaded |-> TRUE, value |-> None]
                           ELSE provinceSelector
    /\ tasks' = IF r = "ok"
                THEN Put(Take(tasks, t), Task("selectProvince", 1, "geo"))
                ELSE Take(tasks, t)
    /\ last' = "none"
    /\ UNCHANGED <<mapInit, view, mapLayers, layers, selectedLocation, selectors,
                   info, events, callVars, unitVars>>

ResumeProvincesList(t, r) ==
    /\ t.op = "loadProvincesListOnly"
    /\ provinceSelector' = IF r = "ok" THEN [loaded |-> TRUE, value |-> None]
                           ELSE provinceSelector
    /\ tasks' = Take(tasks, t)
    /\ last' = "none"
    /\ UNCHANGED <<mapInit, view, mapLayers, layers, selectedLocation, selectors,
                   info, events, callVars, unitVars>>

\* the options a control offers; the empty option is always among them
Offered(sel) ==
    IF sel.opts.kind = "list" THEN Codes \cup {None} ELSE {None}

InFlight == BagCardinality(tasks)

\* change on #province-selector
SelectProvince(code) ==
    /\ mapInit
    /\ events < MaxEvents
    /\ events' = events + 1
    /\ provinceSelector.loaded
    /\ code # provinceSelector.value
    /\ code # None => InFlight < MaxTasks
    /\ LET w0 == [World EXCEPT !.provinceSelector.value = code]
           w == selectProvinceCall(w0, code)
           ts == Supersede(tasks, 1)
       IN /\ Commit(w)
          /\ tasks' = IF code # None
                      THEN Put(ts, Task("selectProvince", code, "geo"))
                      ELSE MarkReset(ts)
          /\ last' = IF code = None THEN ResetOutcome(w) ELSE "none"

\* change on #city-selector
SelectCity(code) ==
    /\ mapInit
    /\ events < MaxEvents
    /\ events' = events + 1
    /\ ~selectors["city"].disabled
    /\ code \in Offered(selectors["city"])
    /\ code # selectors["city"].value
    /\ code # None => InFlight < MaxTasks
    /\ LET w0 == [World EXCEPT !.selectors["city"].value = code]
           w == selectCityCall(w0, code)
           ts == Supersede(tasks, 2)
       IN /\ Commit(w)
          /\ tasks' = IF code # None
                      THEN Put(ts, Task("selectCity", code, "geo"))
                      ELSE ts
          /\ last' = "none"

\* change on #district-selector
SelectDistrict(code) ==
    /\ mapInit
    /\ events < MaxEvents
    /\ events' = events + 1
    /\ ~selectors["district"].disabled
    /\ code \in Offered(selectors["district"])
    /\ code # selectors["district"].value
    /\ code # None => InFlight < MaxTasks
    /\ LET w0 == [World EXCEPT !.selectors["district"].value = code]
           w == selectDistrictCall(w0, code)
           ts == Supersede(tasks, 3)
       IN /\ Commit(w)
          /\ tasks' = IF code # None
                      THEN Put(ts, Task("selectDistrict", code, "detail"))
                      ELSE ts
          /\ last' = "none"

\* change on #village-selector
SelectVillage(code) ==
    /\ mapInit
    /\ events < MaxEvents
    /\ events' = events + 1
    /\ ~selectors["village"].disabled
    /\ code \in Offered(selectors["village"])
    /\ code # selectors["village"].value
    /\ code # None => InFlight < MaxTasks
    /\ LET w0 == [World EXCEPT !.selectors["village"].value = code]
           w == selectVillageCall(w0, code)
           ts == Supersede(tasks, 4)
       IN /\ Commit(w)
          /\ tasks' = IF code # None
                      THEN Put(ts, Task("selectVillage", code, "detail"))
                      ELSE ts
          /\ last' = "none"

\* click on #reset-map (the listener is attached at DOMContentLoaded)
ResetMap ==
    LET w == resetMap(World)
    IN /\ mapInit
       /\ events < MaxEvents
       /\ events' = events + 1
       /\ Commit(w)
       /\ tasks' = MarkReset(tasks)
       /\ last' = ResetOutcome(w)

----------------------------------------------------------------------------
(* Completions of requests *)

ResumeProvinceGeo(t, r, pk) ==
    /\ t.op = "selectProvince" /\ t.pc = "geo"
    /\ Commit(provinceGeoResume(World, t.code, r, pk))
    /\ tasks' = IF r = "ok" THEN Put(Take(tasks, t), [t EXCEPT !.pc = "list"])
                ELSE Take(tasks, t)
    /\ last' = "none"
    /\ UNCHANGED events

ResumeCityGeo(t, r, pk) ==
    /\ t.op = "selectCity" /\ t.pc = "geo"
    /\ Commit(cityGeoResume(World, t.code, r, pk))
    /\ tasks' = IF r = "ok" THEN Put(Take(tasks, t), [t EXCEPT !.pc = "list"])
                ELSE Take(tasks, t)
    /\ last' = "none"
    /\ UNCHANGED events

\* selectDistrict / selectVillage from the completion of the detail request
\* to the request for the coordinate of selectedLocation.city
ResumeDetail(t, r) ==
    /\ t.op \in {"selectDistrict", "selectVillage"} /\ t.pc = "detail"
    /\ tasks' = IF r = "ok" /\ selectedLocation.city # None
                THEN Put(Take(tasks, t),
                         [t EXCEPT !.pc = "cityGeo", !.city = selectedLocation.city])
                ELSE Take(tasks, t)
    /\ last' = "none"
    /\ UNCHANGED <<mapInit, view, mapLayers, layers, selectedLocation,
                   provinceSelector, selectors, info, events, callVars, unitVars>>

ResumeDistrictCityGeo(t, r, off) ==
    /\ t.op = "selectDistrict" /\ t.pc = "cityGeo"
    /\ Commit(districtCityGeoResume(World, t.code, t.city, r, off[1], off[2]))
    /\ tasks' = IF r = "ok" THEN Put(Take(tasks, t), [t EXCEPT !.pc = "list"])
                ELSE Take(tasks, t)
    /\ last' = "none"
    /\ UNCHANGED events

ResumeVillageCityGeo(t, r, off) ==
    /\ t.op = "selectVillage" /\ t.pc = "cityGeo"
    /\ Commit(villageCityGeoResume(World, t.code, t.city, r, off[1], off[2]))
    /\ tasks' = Take(tasks, t)
    /\ last' = "none"
    /\ UNCHANGED events

\* the control that each handler populates with the children of its code
ChildSelector(op) ==
    CASE op = "selectProvince" -> "city"
      [] op = "selectCity" -> "district"
      [] OTHER -> "village"

\* populate<Level>Selector from the completion of its list request; the
\* select handler that awaited it then ends
ResumeList(t, r) ==
    /\ t.op \in {"selectProvince", "selectCity", "selectDistrict"}
    /\ t.pc = "list"
    /\ Commit(populateResume(World, ChildSelector(t.op), t.code, r))
    /\ tasks' = Take(tasks, t)
    /\ last' = "none"
    /\ UNCHANGED events

Next ==
    \/ DOMContentLoaded
    \/ ResetMap
    \/ \E c \in Codes \cup {None} : SelectProvince(c)
    \/ \E c \in Codes \cup {None} : SelectCity(c)
    \/ \E c \in Codes \cup {None} : SelectDistrict(c)
    \/ \E c \in Codes \cup {None} : SelectVillage(c)
    \/ \E t \in BagToSet(tasks), r \in ListOutcomes : ResumeProvincesList(t, r)
    \/ \E t \in BagToSet(tasks), r \in GeoOutcomes, pk \in PathKinds :
          ResumeProvinceGeo(t, r, pk)
    \/ \E t \in BagToSet(tasks), r \in GeoOutcomes, pk \in PathKinds :
          ResumeCityGeo(t, r, pk)
    \/ \E t \in BagToSet(tasks), r \in ListOutcomes : ResumeDetail(t, r)
    \/ \E t \in BagToSet(tasks), r \in GeoOutcomes, off \in DistrictOffsets :
          ResumeDistrictCityGeo(t, r, off)
    \/ \E t \in BagToSet(tasks), r \in GeoOutcomes, off \in VillageOffsets :
          ResumeVillageCityGeo(t, r, off)
    \/ \E t \in BagToSet(tasks), r \in ListOutcomes : ResumeList(t, r)

Spec == Init /\ [][Next]_vars

----------------------------------------------------------------------------
(* The page used one selection at a time: the user acts only when no       *)
(* request is awaited                                                      *)

Quiet == tasks = EmptyBag

NextSequential ==
    \/ DOMContentLoaded
    \/ Quiet /\ ResetMap
    \/ \E c \in Codes \cup {None} : Quiet /\ SelectProvince(c)
    \/ \E c \in Codes \cup {None} : Quiet /\ SelectCity(c)
    \/ \E c \in Codes \cup {None} : Quiet /\ SelectDistrict(c)
    \/ \E c \in Codes \cup {None} : Quiet /\ SelectVillage(c)
    \/ \E t \in BagToSet(tasks), r \in ListOutcomes : ResumeProvincesList(t, r)
    \/ \E t \in BagToSet(tasks), r \in GeoOutcomes, pk \in PathKinds :
          ResumeProvinceGeo(t, r, pk)
    \/ \E t \in BagToSet(tasks), r \in GeoOutcomes, pk \in PathKinds :
          ResumeCityGeo(t, r, pk)
    \/ \E t \in BagToSet(tasks), r \in ListOutcomes : ResumeDetail(t, r)
    \/ \E t \in BagToSet(tasks), r \in GeoOutcomes, off \in DistrictOffsets :
          ResumeDistrictCityGeo(t, r, off)
    \/ \E t \in BagToSet(tasks), r \in GeoOutcomes, off \in VillageOffsets :
          ResumeVillageCityGeo(t, r, off)
    \/ \E t \in BagToSet(tasks), r \in ListOutcomes : ResumeList(t, r)

SpecSequential == Init /\ [][NextSequential]_vars

----------------------------------------------------------------------------
(* Direct calls of showProvinceBoundary / showCityBoundary on a payload    *)

\* first components of the points of a payload: numbers, a numeric string,
\* and values that are not numbers
FirstComponents == {Num(0), NumStr(1), NullV, EmptyStr, BoolTrue, Text}

\* what stands at the place of a point: pairs, an array of one component,
\* a bare number
PointKinds ==
    {Arr(<<c, Num(0)>>) : c \in FirstComponents}
        \cup {Point(0, 1), Arr(<<Num(0)>>), Num(0)}

\* the lengths of the rings of a multi-polygon: at most k rings that hold
\* at most n points in all
RECURSIVE RingLengths(_, _)
RingLengths(k, n) ==
    IF k = 0 THEN {<<>>}
    ELSE {<<>>} \cup
         UNION {{<<l>> \o rest : rest \in RingLengths(k - 1, n - l)} : l \in 0..n}

RECURSIVE Total(_)
Total(lens) == IF lens = <<>> THEN 0 ELSE Head(lens) + Total(Tail(lens))

\* the shapes of a native payload: a single polygon of n points, or a
\* multi-polygon with rings of the given lengths
PathShapes ==
    {[multi |-> FALSE, lens |-> <<n>>] : n \in 0..MaxPoints}
        \cup {[multi |-> TRUE, lens |-> ls] : ls \in RingLengths(MaxRings, MaxPoints)}

\* the payload of a shape whose points are pts, in order
BuildPath(shape, pts) ==
    IF ~shape.multi THEN Arr(pts)
    ELSE LET start(i) == Total(SubSeq(shape.lens, 1, i - 1))
         IN Arr([i \in 1..Len(shape.lens) |->
                    Arr(SubSeq(pts, start(i) + 1, start(i) + shape.lens[i]))])

\* payloads that are neither an array nor the JSON text of one
OtherPaths == {Undefined, NullV, EmptyStr, Text, NumStr(1), ObjectV}

\* how a call ended: the kind of normalize, "rejected" for a draw that
\* the renderer refuses
callOutcome(path) ==
    LET n == normalize(path)
    IN IF n.kind = "draw" /\ ~Accepted(n.polygons) THEN "rejected" ELSE n.kind

\* the page with its map, no selection made, and a payload to show
InitBoundary ==
    /\ mapInit = TRUE
    /\ view = [center |-> DEFAULT_COORDINATE, zoom |-> DEFAULT_ZOOM]
    /\ mapLayers = EmptyBag
    /\ layers = [n \in LayerVars |-> Null]
    /\ selectedLocation = NullLocation
    /\ provinceSelector = [loaded |-> TRUE, value |-> None]
    /\ selectors = [s \in {"city", "district", "village"} |-> ClearedSelector]
    /\ info = [content |-> "empty", code |-> None, display |-> FALSE]
    /\ tasks = EmptyBag
    /\ events = 0
    /\ last = "none"
    /\ \/ geoPath \in OtherPaths
       \/ \E shape \in PathShapes, encoded \in BOOLEAN :
             \E pts \in [1..Total(shape.lens) -> PointKinds] :
                geoPath = IF encoded THEN JsonText(BuildPath(shape, pts))
                          ELSE BuildPath(shape, pts)
    /\ polygonsOut = <<>>
    /\ outcome = "none"
    /\ InitUnits

ShowBoundaryCall(name, level) ==
    /\ outcome \in {"none", "fed"}
    /\ CommitWorld(showBoundaryPath(World, name, level, 1, geoPath))
    /\ polygonsOut' = normalize(geoPath).polygons
    /\ outcome' = callOutcome(geoPath)
    /\ UNCHANGED <<geoPath, tasks, events, last, unitVars>>

\* mapManager.showProvinceBoundary({path: geoPath})
ShowProvinceBoundaryCall == ShowBoundaryCall("provinceBoundariesLayer", "province")

\* mapManager.showCityBoundary({path: geoPath})
ShowCityBoundaryCall == ShowBoundaryCall("cityBoundariesLayer", "city")

\* the ring list a call produced becomes the payload of the next call
FeedBack ==
    /\ outcome \notin {"none", "fed", "skip"}
    /\ geoPath' = AsPath(polygonsOut)
    /\ outcome' = "fed"
    /\ UNCHANGED <<mapInit, view, mapLayers, layers, selectedLocation,
                   provinceSelector, selectors, info, tasks, events, last,
                   polygonsOut, unitVars>>

NextBoundary ==
    \/ ShowProvinceBoundaryCall
    \/ ShowCityBoundaryCall
    \/ FeedBack

SpecBoundary == InitBoundary /\ [][NextBoundary]_vars

----------------------------------------------------------------------------
(* apiService.fetchData taken alone: calls with every kind of answer        *)

MaxCalls == 2

pageVars == <<mapInit, view, mapLayers, layers, selectedLocation,
              provinceSelector, selectors, info, tasks, events, last>>

\* some of the endpoints the get* methods build
Endpoints == {"/provinsi", "/provinsi/1/geo", "/kabupaten-kota?limit=100&kode_provinsi=1"}

\* final status codes of a response, on both sides of each end of 200..299
Statuses == {200, 201, 299, 300, 404, 500}

\* response bodies: JSON text of an object, of null and of an array, text
\* that is not JSON, and no body at all
Bodies == {JsonText(ObjectV), JsonText(NullV), JsonText(Arr(<<>>)), Text, EmptyStr}

\* what the network does with a request: fetch() rejects, or a response
Answers ==
    {[transport |-> "fail", status |-> 0, body |-> Undefined]} \cup
    {[transport |-> "ok", status |-> st, body |-> b] : st \in Statuses, b \in Bodies}

\* response.ok
responseOk(status) == status >= 200 /\ status <= 299

\* response.json() reporting every body as parsed
responseJsonLenient(body) ==
    IF body.t = "jsontext"
    THEN [threw |-> FALSE, value |-> body.items[1]]
    ELSE [threw |-> FALSE, value |-> body]

\* response.json(): the value the body is the JSON text of, or a SyntaxError
responseJson(body) ==
    IF body.t = "jsontext"
    THEN [threw |-> FALSE, value |-> body.items[1]]
    ELSE [threw |-> TRUE, value |-> Undefined]

\* fetchData up to `await fetch(fullUrl)`
fetchDataCall(endpoint) ==
    [endpoint |-> endpoint, pc |-> "fetch", result |-> Undefined]

\* fetchData from the completion of fetch() to `await response.json()`; the
\* catch block logs and throws the error again
fetchDataAfterFetch(call, ans) ==
    IF ans.transport = "fail" THEN [call EXCEPT !.pc = "threw"]
    ELSE IF ~responseOk(ans.status) THEN [call EXCEPT !.pc = "threw"]
    ELSE [call EXCEPT !.pc = "json"]

\* fetchData from the completion of response.json() to its end
fetchDataAfterJson(call, ans) ==
    LET parsed == responseJson(ans.body)
    IN IF parsed.threw THEN [call EXCEPT !.pc = "threw"]
       ELSE [call EXCEPT !.pc = "returned", !.result = parsed.value]

\* a caller calls fetchData(e); the network will answer with ans
FetchDataCall(e, ans) ==
    /\ fetchCall.pc \in {"idle", "returned", "threw"}
    /\ traffic.calls < MaxCalls
    /\ fetchCall' = fetchDataCall(e)
    /\ server' = ans
    /\ traffic' = [calls |-> traffic.calls + 1, requests |-> traffic.requests + 1]
    /\ UNCHANGED <<pageVars, callVars, script2, table, demo, debounced>>

\* fetch() settles
FetchSettles ==
    /\ fetchCall.pc = "fetch"
    /\ fetchCall' = fetchDataAfterFetch(fetchCall, server)
    /\ UNCHANGED <<pageVars, callVars, server, traffic, script2, table, demo,
                   debounced>>

\* response.json() settles
JsonSettles ==
    /\ fetchCall.pc = "json"
    /\ fetchCall' = fetchDataAfterJson(fetchCall, server)
    /\ UNCHANGED <<pageVars, callVars, server, traffic, script2, table, demo,
                   debounced>>

NextFetch ==
    \/ \E e \in Endpoints, ans \in Answers : FetchDataCall(e, ans)
    \/ FetchSettles
    \/ JsonSettles

SpecFetch == Init /\ [][NextFetch]_vars

----------------------------------------------------------------------------
(* src/script.js, second version: the boundary toggles and resetMap        *)

\* the identifier each toggle's handler keeps its polygon in
BoundaryGlobal(b) ==
    IF b = "province" THEN "provinceBoundaryLayer" ELSE "cityBoundaryLayer"

\* a plain read of the identifier succeeds (otherwise: ReferenceError)
Readable2(s, b) == BoundaryGlobal(b) \in s.implicitGlobals

Pending2(op, level, code, pc) == [op |-> op, level |-> level, code |-> code, pc |-> pc]

\* the body shared by toggle*Boundary (after its fetch) and show*Boundary,
\* inside their try blocks: test the identifier, remove the old polygon,
\* JSON.parse(path), assign the new polygon and add it to the map
drawBoundary2(s, b, code, pk) ==
    IF pk = "absent" THEN s
    ELSE IF ~Readable2(s, b) THEN s
    ELSE IF pk = "badjson" THEN [s EXCEPT !.boundary[b] = None]
    ELSE [s EXCEPT !.boundary[b] = code]

\* toggle*Boundary(show) up to its await, or to its end
toggleBoundary2(s, b, show) ==
    IF show /\ s.selectedLocation[b] # None
    THEN [s EXCEPT !.pending =
             @ (+) SetToBag({Pending2("toggle", b, s.selectedLocation[b], "geo")})]
    ELSE IF Readable2(s, b) THEN [s EXCEPT !.boundary[b] = None]
    ELSE s

\* mapManager.resetMap; `last` in the result: "returned", or "threw" (a
\* TypeError while `map` is undefined, a ReferenceError at the first read
\* of an identifier that does not exist)
resetMap2(s) ==
    IF ~s.ready \/ ~Readable2(s, "province")
    THEN [s EXCEPT !.last = "threw"]
    ELSE IF ~Readable2(s, "city")
    THEN [s EXCEPT !.boundary["province"] = None, !.last = "threw"]
    ELSE [s EXCEPT !.boundary = [b \in {"province", "city"} |-> None],
                   !.selectedLocation = [province |-> None, city |-> None],
                   !.cityEnabled = FALSE,
                   !.checked = [b \in {"province", "city"} |-> FALSE],
                   !.last = "returned"]

Step2(s) ==
    /\ script2' = s
    /\ UNCHANGED <<pageVars, callVars, fetchCall, server, traffic, table, demo,
                   debounced>>

InFlight2 == BagCardinality(script2.pending)

Idle2 == [script2 EXCEPT !.last = "none"]

\* DOMContentLoaded: mapManager.init() creates the map and starts
\* loadProvincesListOnly; the listeners are attached
DOMContentLoaded2 ==
    /\ ~script2.ready
    /\ Step2([Idle2 EXCEPT !.ready = TRUE,
                           !.pending = @ (+) SetToBag({Pending2("loadProvincesListOnly", "province", None, "list")})])

\* change on a boundary toggle: the box is checked or unchecked, the
\* listener calls toggle*Boundary(e.target.checked)
ToggleChange(b) ==
    /\ script2.ready
    /\ ~script2.checked[b] => InFlight2 < MaxTasks
    /\ LET s0 == [Idle2 EXCEPT !.checked[b] = ~@]
       IN Step2(toggleBoundary2(s0, b, s0.checked[b]))

\* change on #province-selector
SelectProvince2(code) ==
    /\ script2.ready /\ script2.provincesLoaded
    /\ code # script2.selectedLocation.province
    /\ code # None => InFlight2 < MaxTasks
    /\ IF code = None
       THEN LET s1 == resetMap2(Idle2)
            IN Step2(IF s1.last = "threw" THEN s1
                     ELSE [s1 EXCEPT !.cityEnabled = FALSE])
       ELSE Step2([Idle2 EXCEPT
                     !.selectedLocation = [province |-> code, city |-> None],
                     !.pending = @ (+) SetToBag({Pending2("selectProvince", "province", code, "geo")})])

\* change on #city-selector
SelectCity2(code) ==
    /\ script2.ready /\ script2.cityEnabled
    /\ code # script2.selectedLocation.city
    /\ code # None => InFlight2 < MaxTasks
    /\ IF code = None
       THEN Step2([Idle2 EXCEPT !.selectedLocation.city = None])
       ELSE Step2([Idle2 EXCEPT
                     !.selectedLocation.city = code,
                     !.pending = @ (+) SetToBag({Pending2("selectCity", "city", code, "geo")})])

\* click on #reset-map
ResetMap2 ==
    /\ script2.ready
    /\ Step2(resetMap2(Idle2))

\* a request of the second version completes with outcome r; pk: the path
\* of a geo payload
Resume2(t, r, pk) ==
    LET s0 == [Idle2 EXCEPT !.pending = @ (-) SetToBag({t})]
    IN CASE t.op = "loadProvincesListOnly" ->
              Step2(IF r = "ok" THEN [s0 EXCEPT !.provincesLoaded = TRUE] ELSE s0)
         [] t.op = "toggle" ->
              Step2(IF r \in {"ok", "nocoord"}
                    THEN drawBoundary2(s0, t.level, t.code, pk) ELSE s0)
         [] t.op = "selectProvince" /\ t.pc = "geo" ->
              Step2(IF r = "ok"
                    THEN LET s1 == IF s0.checked["province"]
                                   THEN drawBoundary2(s0, "province", t.code, pk)
                                   ELSE s0
                         IN [s1 EXCEPT
                               !.cityEnabled = FALSE,
                               !.pending = @ (+) SetToBag({[t EXCEPT !.pc = "list"]})]
                    ELSE s0)
         [] t.op = "selectProvince" /\ t.pc = "list" ->
              Step2(IF r = "ok" THEN [s0 EXCEPT !.cityEnabled = TRUE] ELSE s0)
         [] OTHER ->
              Step2(IF r = "ok" /\ s0.checked["city"]
                    THEN drawBoundary2(s0, "city", t.code, pk) ELSE s0)

NextToggles ==
    \/ DOMContentLoaded2
    \/ \E b \in {"province", "city"} : ToggleChange(b)
    \/ \E c \in Codes \cup {None} : SelectProvince2(c)
    \/ \E c \in Codes \cup {None} : SelectCity2(c)
    \/ ResetMap2
    \/ \E t \in BagToSet(script2.pending), r \in GeoOutcomes, pk \in PathKinds :
          /\ t.pc = "list" => r # "nocoord"
          /\ Resume2(t, r, pk)

SpecToggles == Init /\ [][NextToggles]_vars

----------------------------------------------------------------------------
(* src/script.js, second version: visualizationManager fills the provinces *)
(* table                                                                   *)

\* number of provinces in the list the service returns
NumProvinces == 7

\* const batchSize = 5
BatchSize == 5

Min(a, b) == IF a < b THEN a ELSE b

\* provinces.slice(i, i + batchSize), as row numbers
Batch(i, n) == (i + 1)..Min(i + BatchSize, n)

\* one iteration of the for loop up to `await Promise.all(...)`: a geo
\* request is issued for every province of the batch; past the last
\* province the function ends
startBatch(t, i) ==
    IF i < Len(t.rows)
    THEN [t EXCEPT !.i = i, !.waiting = Batch(i, Len(t.rows)), !.pc = "batch"]
    ELSE [t EXCEPT !.i = i, !.pc = "done"]

\* the callback of batch.map from the completion of its geo request to its
\* end: the cells on success, N/A in the catch block
rowSettled(t, k, r) ==
    CASE r = "ok" -> [t EXCEPT !.rows[k] = "data", !.waiting = @ \ {k}]
      [] r = "throw" -> [t EXCEPT !.rows[k] = "na", !.waiting = @ \ {k}]
      [] OTHER -> [t EXCEPT !.waiting = @ \ {k}]

\* the loop after Promise.all, moving on as soon as one request has resolved
afterBatchRace(t) ==
    IF t.i + BatchSize < Len(t.rows)
    THEN [t EXCEPT !.pc = "delay"]
    ELSE startBatch(t, t.i + BatchSize)

\* the loop after `await Promise.all(...)`, which resolves when every
\* callback of the batch has ended: the 500 ms pause, or the end
afterBatch(t) ==
    IF t.waiting # {} THEN t
    ELSE IF t.i + BatchSize < Len(t.rows)
    THEN [t EXCEPT !.pc = "delay"]
    ELSE startBatch(t, t.i + BatchSize)

StepTable(t) ==
    /\ table' = t
    /\ UNCHANGED <<pageVars, callVars, fetchCall, server, traffic, script2,
                   demo, debounced>>

\* visualizationManager.init(): loadProvincesTable asks for the list
VisualizationInit ==
    /\ table.pc = "idle"
    /\ StepTable([table EXCEPT !.pc = "listing"])

\* loadProvincesTable from the completion of getProvinces: the basic table
\* of n rows, then loadDetailedProvinceData up to its first await
ProvincesArrive(r, n) ==
    /\ table.pc = "listing"
    /\ StepTable(CASE r = "ok" ->
                        startBatch([table EXCEPT !.rows = [k \in 1..n |-> "loading"]], 0)
                   [] r = "throw" -> [table EXCEPT !.pc = "error"]
                   [] OTHER -> [table EXCEPT !.pc = "done"])

\* the geo request of row k completes
RowGeoArrives(k, r) ==
    /\ table.pc = "batch"
    /\ k \in table.waiting
    /\ StepTable(afterBatch(rowSettled(table, k, r)))

\* the 500 ms pause between two batches ends
PauseEnds ==
    /\ table.pc = "delay"
    /\ StepTable(startBatch(table, table.i + BatchSize))

NextTable ==
    \/ VisualizationInit
    \/ \E r \in ListOutcomes, n \in 0..NumProvinces : ProvincesArrive(r, n)
    \/ \E k \in 1..NumProvinces, r \in ListOutcomes : RowGeoArrives(k, r)
    \/ PauseEnds

SpecTable == Init /\ [][NextTable]_vars

----------------------------------------------------------------------------
(* demoManager: the API demo panel                                         *)

\* number of clicks on #try-endpoint
MaxClicks == 3

Shown(kind, click) == [kind |-> kind, click |-> click]

\* tryEndpoint up to `await apiService.fetchData(endpoint)`, for the click
\* numbered id
tryEndpointCall(dm, id) ==
    [dm EXCEPT !.output = Shown("loading", id),
               !.badge = Shown("loading", id),
               !.pending = @ \cup {[click |-> id, endpoint |-> dm.selected]},
               !.clicks = id]

\* tryEndpoint from the completion of fetchData to its end: the body and
\* "200 OK", or the error message and "Error"
tryEndpointResume(dm, q, r) ==
    IF r = "throw"
    THEN [dm EXCEPT !.output = Shown("error", q.click),
                    !.badge = Shown("error", q.click),
                    !.pending = @ \ {q}]
    ELSE [dm EXCEPT !.output = Shown("body", q.click),
                    !.badge = Shown("ok", q.click),
                    !.pending = @ \ {q}]

StepDemo(dm) ==
    /\ demo' = dm
    /\ UNCHANGED <<pageVars, callVars, fetchCall, server, traffic, script2,
                   table, debounced>>

\* change on #endpoint-select
SelectEndpoint(e) ==
    /\ e # demo.selected
    /\ StepDemo([demo EXCEPT !.selected = e])

\* click on #try-endpoint
TryClick ==
    /\ demo.clicks < MaxClicks
    /\ StepDemo(tryEndpointCall(demo, demo.clicks + 1))

\* the request of a click completes
DemoResponse(q, r) ==
    /\ q \in demo.pending
    /\ StepDemo(tryEndpointResume(demo, q, r))

NextDemo ==
    \/ \E e \in Endpoints : SelectEndpoint(e)
    \/ TryClick
    \/ \E q \in demo.pending, r \in ListOutcomes : DemoResponse(q, r)

SpecDemo == Init /\ [][NextDemo]_vars

----------------------------------------------------------------------------
(* utils.debounce(func, wait): the wrapper, the browser's timers, a clock  *)

\* the `wait` of the wrapper, in ticks of the clock
Wait == 2
\* the clock stops at MaxTime; timer identifiers run up to MaxTimerIds
MaxTime == 5
MaxTimerIds == 4
\* the arguments a call may carry
ArgValues == {1, 2}

\* clearTimeout(id): the timer with that identifier, if pending, is dropped
clearTimeout(db, id) ==
    [db EXCEPT !.timers = {tm \in @ : tm.id # id}]

\* timeout = setTimeout(later, wait), `later` holding the arguments
setTimeout(db, args) ==
    [db EXCEPT !.timers = @ \cup {[id |-> db.nextId, due |-> db.now + Wait,
                                    args |-> args]},
               !.timeout = db.nextId,
               !.nextId = @ + 1]

\* executedFunction without its clearTimeout
executedFunctionKeepsTimer(db, args) ==
    [setTimeout(db, args)
        EXCEPT !.lastCall = [at |-> db.now, args |-> args],
               !.burst = @ + 1]

\* executedFunction(...args)
executedFunction(db, args) ==
    [setTimeout(clearTimeout(db, db.timeout), args)
        EXCEPT !.lastCall = [at |-> db.now, args |-> args],
               !.burst = @ + 1]

\* the timer tm fires: later() clears `timeout` and runs func(...args)
later(db, tm) ==
    [clearTimeout([db EXCEPT !.timers = @ \ {tm}], db.timeout)
        EXCEPT !.burst = 0]

StepDebounce(db) ==
    /\ debounced' = db
    /\ UNCHANGED <<pageVars, callVars, fetchCall, server, traffic, script2,
                   table, demo>>

\* the wrapper is called (a resize event)
WrapperCalled(args) ==
    /\ debounced.nextId <= MaxTimerIds
    /\ StepDebounce(executedFunction(debounced, args))

\* a pending timer whose delay has elapsed fires (no sooner; maybe later)
TimerFires(tm) ==
    /\ tm \in debounced.timers
    /\ debounced.now >= tm.due
    /\ StepDebounce(later(debounced, tm))

\* time passes
Tick ==
    /\ debounced.now < MaxTime
    /\ StepDebounce([debounced EXCEPT !.now = @ + 1])

NextDebounce ==
    \/ \E a \in ArgValues : WrapperCalled(a)
    \/ \E tm \in debounced.timers : TimerFires(tm)
    \/ Tick

SpecDebounce == Init /\ [][NextDebounce]_vars

----------------------------------------------------------------------------
(* Vocabulary of the claims *)

ChildSelectors == {"city", "district", "village"}

\* the step resumes the suspended invocation t (no user event; t leaves its await)
Resumes(t) ==
    /\ events' = events
    /\ CopiesIn(t, tasks') < CopiesIn(t, tasks)

\* the step ran resetMap (from the reset button or from selectProvince(""))
RanReset == last # "none"

MarkersOn(ml, level) ==
    { d \in BagToSet(ml) : d.kind = "marker" /\ d.level = level }

\* number of layers of a kind on the map for a level
LiveCount(kind, level) ==
    LET ds == { d \in BagToSet(mapLayers) : d.kind = kind /\ d.level = level }
        Sum[S \in SUBSET ds] ==
            IF S = {} THEN 0
            ELSE LET d == CHOOSE x \in S : TRUE
                 IN CopiesIn(d, mapLayers) + Sum[S \ {d}]
    IN Sum[ds]

\* a control holds no option list and is disabled
Emptied(sel) == sel.opts = Placeholder /\ sel.disabled

----------------------------------------------------------------------------
(* C1: in every reachable state selectedLocation satisfies the ancestor     *)
(* invariant: village set implies district set, district set implies city  *)
(* set, city set implies province set.                                     *)
(* The code breaks it: selectProvince(code) nulls the deeper fields but    *)
(* leaves the district control enabled with the old city's options, so a   *)
(* district can be selected while selectedLocation.city is null.           *)
C1_AncestorInvariant ==
    /\ selectedLocation.village # None => selectedLocation.district # None
    /\ selectedLocation.district # None => selectedLocation.city # None
    /\ selectedLocation.city # None => selectedLocation.province # None

(* C2: when the response to selectProvince(A) arrives after                 *)
(* selectProvince(B) was issued and B's response was applied, applying it  *)
(* changes neither the province marker, nor the viewport, nor the info     *)
(* panel, nor the city control.  The code applies the late response.       *)
BApplied(b) ==
    /\ selectedLocation.province = b
    /\ MarkersOn(mapLayers, "province") = {MarkerDesc("province", b, CoordOf(b))}
    /\ view = [center |-> CoordOf(b), zoom |-> ProvinceZoom]
    /\ info = [content |-> "info", code |-> b, display |-> TRUE]

C2_LateProvinceResponseDropped ==
    [][\A t \in BagToSet(tasks) :
          ( /\ t.op = "selectProvince"
            /\ \E b \in Codes \ {t.code} : BApplied(b)
            /\ Resumes(t) )
          => /\ MarkersOn(mapLayers', "province") = MarkersOn(mapLayers, "province")
             /\ view' = view
             /\ info' = info
             /\ selectors'["city"] = selectors["city"]]_vars

(* C3: the response of a fetch started by a selection at a deeper level     *)
(* than a selection issued since is discarded: it adds no marker or        *)
(* boundary, does not move the viewport, and does not populate or enable   *)
(* any control.  The code applies it.                                      *)
NoLayerAdded ==
    \A d \in BagToSet(mapLayers') : CopiesIn(d, mapLayers') <= CopiesIn(d, mapLayers)

NoControlPopulated ==
    \A s \in ChildSelectors :
        /\ selectors'[s].opts.kind = "list" => selectors'[s].opts = selectors[s].opts
        /\ ~selectors'[s].disabled => ~selectors[s].disabled

C3_SupersededResponseDropped ==
    [][\A t \in BagToSet(tasks) :
          (t.sup /\ Resumes(t))
          => (NoLayerAdded /\ view' = view /\ NoControlPopulated)]_vars

(* C4: a select handler called with a non-empty code sets its level's field *)
(* of selectedLocation to the code, sets every deeper field to null and    *)
(* leaves every shallower field unchanged, in the step that issues its     *)
(* fetch.                                                                  *)
C4_SelectStoresAndClearsDeeper ==
    [][\A c \in Codes :
        /\ (provinceSelector'.value = c /\ provinceSelector.value # c)
            => /\ selectedLocation' =
                    [province |-> c, city |-> None, district |-> None, village |-> None]
               /\ CopiesIn(Task("selectProvince", c, "geo"), tasks') > 0
        /\ (selectors'["city"].value = c /\ selectors["city"].value # c)
            => /\ selectedLocation' =
                    [province |-> selectedLocation.province, city |-> c,
                     district |-> None, village |-> None]
               /\ CopiesIn(Task("selectCity", c, "geo"), tasks') > 0
        /\ (selectors'["district"].value = c /\ selectors["district"].value # c)
            => /\ selectedLocation' =
                    [province |-> selectedLocation.province,
                     city |-> selectedLocation.city,
                     district |-> c, village |-> None]
               /\ CopiesIn(Task("selectDistrict", c, "detail"), tasks') > 0
        /\ (selectors'["village"].value = c /\ selectors["village"].value # c)
            => /\ selectedLocation' = [selectedLocation EXCEPT !.village = c]
               /\ CopiesIn(Task("selectVillage", c, "detail"), tasks') > 0]_vars

\* a city was just selected over an earlier district selection: the district
\* control still shows the district, the district field is null again
C4_Witness ==
    \E t \in BagToSet(tasks) :
        /\ t.op = "selectCity" /\ t.pc = "geo" /\ ~t.sup
        /\ selectedLocation.city = t.code
        /\ selectedLocation.province # None
        /\ selectors["district"].value # None
        /\ selectedLocation.district = None

(* C5: selecting none on the province control leaves all four fields of     *)
(* selectedLocation unset.  In the code resetMap raises a ReferenceError    *)
(* before it reaches the reset of selectedLocation.                        *)
C5_SelectNoneClearsAll ==
    [][(provinceSelector'.value = None /\ provinceSelector.value # None)
          => selectedLocation' = NullLocation]_vars

(* C6: the map holds at most one live marker and at most one live boundary  *)
(* per administrative level: a marker or boundary placed for a level that  *)
(* has one replaces it.                                                    *)
C6_OneOverlayPerLevel ==
    \A i \in 1..4 :
        /\ LiveCount("marker", LevelNames[i]) <= 1
        /\ LiveCount("boundary", LevelNames[i]) <= 1

\* a second province's marker replaced the first one's, whose boundary is
\* still drawn
C6_Witness ==
    /\ layers["currentProvinceLayer"] # Null
    /\ layers["provinceBoundariesLayer"] # Null
    /\ layers["provinceBoundariesLayer"].live
    /\ layers["currentProvinceLayer"].desc.code # layers["provinceBoundariesLayer"].desc.code
    /\ LiveCount("marker", "province") = 1
    /\ LiveCount("boundary", "province") = 1

(* C7: after resetMap has run with no fetch in flight, no marker and no     *)
(* boundary of any level is on the map.  In the code the boundaries stay:  *)
(* resetMap raises before it removes them.                                 *)
C7_ResetRemovesAllOverlays ==
    (RanReset /\ tasks = EmptyBag) => mapLayers = EmptyBag

(* C8: after a city has been selected, selecting none on the province       *)
(* control or invoking reset leaves the city, district and village         *)
(* controls with only their placeholder and disabled.  In the code the     *)
(* controls keep their options.                                            *)
C8_ResetEmptiesControls ==
    [][(selectedLocation.city # None /\ last' # "none")
          => \A s \in ChildSelectors : Emptied(selectors'[s])]_vars

(* C9: resetMap completes without raising an exception, in every state      *)
(* (before the map exists it raises a TypeError, afterwards a              *)
(* ReferenceError for provinceBoundaryLayer).                              *)
C9_ResetNeverThrows == last # "threw"

(* C10: when a non-empty code is selected at the province, city or district *)
(* level, every control of a deeper level is empty and disabled in the     *)
(* state in which the fetch for the selection is issued.  The code leaves  *)
(* them as they were.                                                      *)
C10_DeeperControlsClearedFirst ==
    [][\A c \in Codes :
        /\ (provinceSelector'.value = c /\ provinceSelector.value # c)
            => \A s \in {"city", "district", "village"} : Emptied(selectors'[s])
        /\ (selectors'["city"].value = c /\ selectors["city"].value # c)
            => \A s \in {"district", "village"} : Emptied(selectors'[s])
        /\ (selectors'["district"].value = c /\ selectors["district"].value # c)
            => Emptied(selectors'["village"])]_vars

\* the field of selectedLocation that holds the parent code of a control
ParentField(s) ==
    CASE s = "city" -> "province"
      [] s = "district" -> "city"
      [] OTHER -> "district"

(* C11: in no reachable state is a city, district or village control        *)
(* enabled while it lists options fetched for a parent code other than the *)
(* one selectedLocation holds.  In the code a selection stores the new     *)
(* parent code and leaves the control as it was.                           *)
C11_NoStaleOptions ==
    \A s \in ChildSelectors :
        (~selectors[s].disabled /\ selectors[s].opts.kind = "list")
            => selectors[s].opts.parent = selectedLocation[ParentField(s)]

\* the three child controls are disabled in the state the step leads to
ChildrenDisabledNext == \A s \in ChildSelectors : selectors'[s].disabled

\* the info panel shows the inline error in the state the step leads to
ErrorShownNext == info'.content = "error" /\ info'.display

(* C12: when the province geo fetch of selectProvince(code) fails           *)
(* (transport error or non-2xx status), the handler ends with the inline   *)
(* error shown in the info panel and the city, district and village        *)
(* controls disabled.  The catch block of the code writes the error and    *)
(* touches no control.                                                     *)
C12_GeoFailureDisablesChildren ==
    [][\A t \in BagToSet(tasks), pk \in PathKinds :
          ResumeProvinceGeo(t, "throw", pk)
              => (ErrorShownNext /\ ChildrenDisabledNext)]_vars

(* C13: a body with success:false is handled like a non-2xx status:        *)
(* selectProvince ends with the inline error shown and the child controls  *)
(* disabled, a populate routine ends with its control showing the error    *)
(* option.  The code skips the body of its `if` and does neither.          *)
C13_SuccessFalseIsFailure ==
    [][\A t \in BagToSet(tasks) :
          /\ \A pk \in PathKinds :
                ResumeProvinceGeo(t, "fail", pk)
                    => (ErrorShownNext /\ ChildrenDisabledNext)
          /\ ResumeList(t, "fail")
                => selectors'[ChildSelector(t.op)].opts = ErrorOption]_vars

\* the step is a change event on one of the four controls
SelectStep ==
    \/ provinceSelector'.value # provinceSelector.value
    \/ \E s \in ChildSelectors, c \in Codes \cup {None} :
          selectors'[s].value = c /\ selectors[s].value # c /\ events' # events

(* C14: no invocation of selectProvince, selectCity, selectDistrict or      *)
(* selectVillage ends in an uncaught exception or a rejected promise.      *)
(* (The continuations of the handlers run inside try/catch; the call of    *)
(* resetMap from selectProvince with no code does not.)                    *)
C14_SelectNeverRejects ==
    [][SelectStep => last' # "threw"]_vars


\* L.polygon was called with polygonsOut
Called == outcome \in {"draw", "rejected"}

\* the step is a call of show*Boundary
ShowStep == outcome \in {"none", "fed"} /\ outcome' \notin {"none", "fed"}

C16_NoNaNPassed == Called => Accepted(polygonsOut)

\* a valid point of the specification: a pair whose components are numbers
\* after coercion
NumericPair(pt) ==
    /\ pt.t = "arr"
    /\ Len(pt.items) = 2
    /\ parseFloat(pt.items[1]) # NaN
    /\ parseFloat(pt.items[2]) # NaN

\* the array a payload denotes
PathValue(path) == parsePath(path).value

\* the rings a payload may hold: its elements as one polygon, and each of
\* its elements that is an array
CandidateRings(p) ==
    IF p.t # "arr" THEN {}
    ELSE {p.items} \cup {p.items[i].items : i \in {j \in 1..Len(p.items) : p.items[j].t = "arr"}}

GoodRings(p) ==
    {g \in CandidateRings(p) : Len(SelectSeq(g, NumericPair)) >= MinRingPoints}

\* the ring of g's valid points, coerced and closed
ExpectedRing(g) ==
    LET kept == SelectSeq(g, NumericPair)
    IN closeRing([i \in 1..Len(kept) |-> CoercePoint(kept[i])])

BoundaryOnMap ==
    \E d \in BagToSet(mapLayers) : d.kind = "boundary"

(* C17: for a payload that holds at least one ring with 3 or more valid     *)
(* points, the normalization yields a ring list that contains that ring    *)
(* and a boundary layer is drawn, whatever else the payload holds.  The    *)
(* code decides single / multi on the first element alone, gives up on a   *)
(* ring that is not an array, and hands rings with NaN to the renderer.    *)
C17_GoodRingIsDrawn ==
    (outcome \notin {"none", "fed"})
        => \A g \in GoodRings(PathValue(geoPath)) :
              /\ outcome = "draw"
              /\ \E i \in 1..Len(polygonsOut) : polygonsOut[i] = ExpectedRing(g)
              /\ BoundaryOnMap

(* C18: normalization is idempotent: the ring list produced from a payload, *)
(* given back as a payload, yields the same ring list.  A ring with a NaN  *)
(* point loses that point the second time.                                 *)
C18_NormalizeIdempotent ==
    [][(outcome = "fed" /\ ShowStep) => AsPath(polygonsOut') = geoPath]_vars

\* malformed JSON text, an empty array, or an array of 2-point polygons
NothingToDraw(path) ==
    \/ path = Text
    \/ LET p == PathValue(path)
       IN /\ p.t = "arr"
          /\ \A i \in 1..Len(p.items) :
                /\ p.items[i].t = "arr"
                /\ Len(p.items[i].items) = 2
                /\ \A j \in 1..2 : p.items[i].items[j].t = "arr"

(* C19: for a payload that is malformed JSON text, an empty array or an     *)
(* array of 2-point polygons, showProvinceBoundary and showCityBoundary    *)
(* raise no exception to their caller and add no boundary layer.           *)
C19_NothingToDrawAddsNoLayer ==
    [][(ShowStep /\ NothingToDraw(geoPath))
          => (NoLayerAdded /\ outcome' \in {"return", "caught"})]_vars

\* a multi-polygon of 2-point polygons of numeric points was shown: the
\* function returned and the map holds no layer
C19_Witness ==
    /\ NothingToDraw(geoPath)
    /\ geoPath.t = "arr" /\ Len(geoPath.items) = 1
    /\ \A j \in 1..2 : ValidPoint(geoPath.items[1].items[j])
    /\ outcome = "return"
    /\ mapLayers = EmptyBag

\* the step places the marker of code at `level` and moves the view to it
MarkerPlacedNext(level, code, zoom) ==
    /\ CopiesIn(MarkerDesc(level, code, CoordOf(code)), mapLayers') > 0
    /\ view' = [center |-> CoordOf(code), zoom |-> zoom]

\* the step starts the population of control s by the invocation t
PopulationStartedNext(s, t) ==
    /\ selectors'[s].opts = Loading
    /\ CopiesIn([t EXCEPT !.pc = "list"], tasks') > 0

(* C20: a boundary payload that yields no boundary does not keep the rest   *)
(* of a province or city selection from being applied: the marker is       *)
(* placed, the view moves to its coordinate, the request for the child     *)
(* control's list is issued, and its answer populates the control.         *)
C20_BadBoundaryKeepsSelection ==
    [][\A t \in BagToSet(tasks) :
          /\ \A pk \in {k \in PathKinds : ~Renderable(k)} :
                /\ ResumeProvinceGeo(t, "ok", pk)
                      => /\ MarkerPlacedNext("province", t.code, ProvinceZoom)
                         /\ PopulationStartedNext("city", t)
                /\ ResumeCityGeo(t, "ok", pk)
                      => /\ MarkerPlacedNext("city", t.code, CityZoom)
                         /\ PopulationStartedNext("district", t)
          /\ ResumeList(t, "ok")
                => selectors'[ChildSelector(t.op)] =
                      [opts |-> OptionList(t.code), disabled |-> FALSE, value |-> None]]_vars

\* a second province was selected, its payload yielded no boundary (the
\* first one's boundary was taken off), its marker stands and its cities
\* are listed
C20_Witness ==
    /\ layers["provinceBoundariesLayer"] # Null
    /\ ~layers["provinceBoundariesLayer"].live
    /\ layers["currentProvinceLayer"] # Null
    /\ layers["currentProvinceLayer"].live
    /\ layers["currentProvinceLayer"].desc.code # layers["provinceBoundariesLayer"].desc.code
    /\ view = [center |-> CoordOf(layers["currentProvinceLayer"].desc.code),
               zoom |-> ProvinceZoom]
    /\ selectors["city"].opts = OptionList(layers["currentProvinceLayer"].desc.code)
    /\ ~selectors["city"].disabled


(* C21: when selectProvince(code) runs with no other selection interleaved  *)
(* and the service answers with success and a valid coordinate, the        *)
(* handler ends with exactly one province marker, at that coordinate, the  *)
(* viewport centred on it at zoom 8, and the city control enabled with the *)
(* options of the city list query for that code.                           *)
C21_ProvinceSelectionApplied ==
    [][\A t \in BagToSet(tasks) :
          (t.op = "selectProvince" /\ ResumeList(t, "ok"))
             => /\ CopiesIn(MarkerDesc("province", t.code, CoordOf(t.code)),
                            mapLayers') = 1
                /\ MarkersOn(mapLayers', "province")
                      = {MarkerDesc("province", t.code, CoordOf(t.code))}
                /\ view' = [center |-> CoordOf(t.code), zoom |-> ProvinceZoom]
                /\ selectors'["city"] =
                      [opts |-> OptionList(t.code), disabled |-> FALSE,
                       value |-> None]]_vars

\* a second province was selected after the first was shown: its marker is
\* the only one, the view is on it, its cities are listed
C21_Witness ==
    /\ Quiet
    /\ events = 2
    /\ selectedLocation.province # None
    /\ MarkersOn(mapLayers, "province")
          = {MarkerDesc("province", selectedLocation.province,
                        CoordOf(selectedLocation.province))}
    /\ view = [center |-> CoordOf(selectedLocation.province), zoom |-> ProvinceZoom]
    /\ selectors["city"].opts = OptionList(selectedLocation.province)
    /\ ~selectors["city"].disabled
    /\ layers["provinceBoundariesLayer"] # Null
    /\ layers["provinceBoundariesLayer"].desc.code # selectedLocation.province

----------------------------------------------------------------------------
\* the zoom a selection at each depth moves the viewport to
ZoomAt(depth) ==
    CASE depth = 1 -> ProvinceZoom
      [] depth = 2 -> CityZoom
      [] depth = 3 -> DistrictZoom
      [] OTHER -> VillageZoom

(* C22: the zoom a selection moves the viewport to strictly increases with  *)
(* the depth of the selection (province < city < district < village), and  *)
(* each of them is greater than the default zoom that reset restores: a    *)
(* step in which a handler of depth d moves the viewport leaves it at a    *)
(* zoom above the default, above the zoom of every shallower depth and     *)
(* below the zoom of every deeper one.                                     *)
C22_ZoomIncreasesWithDepth ==
    [][\A t \in BagToSet(tasks) :
          (Resumes(t) /\ view' # view)
             => /\ view'.zoom = ZoomAt(OpLevel(t.op))
                /\ view'.zoom > DEFAULT_ZOOM
                /\ \A d \in 1..4 :
                      /\ d < OpLevel(t.op) => ZoomAt(d) < view'.zoom
                      /\ d > OpLevel(t.op) => ZoomAt(d) > view'.zoom]_vars

\* the four depths have been selected in turn: all four markers are on the
\* map and the viewport is at the village's zoom
C22_Witness ==
    /\ \A l \in 1..4 : MarkersOn(mapLayers, LevelNames[l]) # {}
    /\ selectedLocation.village # None
    /\ view.zoom = VillageZoom
    /\ view.zoom > DEFAULT_ZOOM

----------------------------------------------------------------------------
(* C24: after resetMap has run, whether it returned or was cut short, the   *)
(* viewport is at CONFIG.DEFAULT_COORDINATE and CONFIG.DEFAULT_ZOOM.        *)
C24_ResetRestoresDefaultView ==
    RanReset => view = [center |-> DEFAULT_COORDINATE, zoom |-> DEFAULT_ZOOM]

\* resetMap has just run on a map that showed a province (the panel still
\* describes it): its marker is gone and the view is back at the default
C24_Witness ==
    /\ RanReset
    /\ info.content = "info"
    /\ selectedLocation.province # None
    /\ MarkersOn(mapLayers, "province") = {}
    /\ view = [center |-> DEFAULT_COORDINATE, zoom |-> DEFAULT_ZOOM]

----------------------------------------------------------------------------
\* the control in which a code of each depth is chosen
ControlAt(depth, ps, ss) ==
    IF depth = 1 THEN ps ELSE ss[LevelNames[depth]]

\* the layers of a level on a map, with their multiplicities
LayersOn(ml, level) ==
    [d \in {x \in BagToSet(ml) : x.level = level} |-> CopiesIn(d, ml)]

\* the step leaves the field, markers, boundaries and control of every level
\* shallower than `depth` as they were
ShallowerUnchangedNext(depth) ==
    \A l \in 1..(depth - 1) :
        /\ selectedLocation'[LevelNames[l]] = selectedLocation[LevelNames[l]]
        /\ LayersOn(mapLayers', LevelNames[l]) = LayersOn(mapLayers, LevelNames[l])
        /\ ControlAt(l, provinceSelector', selectors')
              = ControlAt(l, provinceSelector, selectors)

\* the step is the completion, for invocation t, of a fetch that failed:
\* an exception, success:false, or a geo payload without a coordinate
FailedFetchStep(t) ==
    \/ \E r \in GeoOutcomes \ {"ok"}, pk \in PathKinds :
          ResumeCityGeo(t, r, pk)
    \/ \E r \in ListOutcomes \ {"ok"} : ResumeDetail(t, r)
    \/ \E r \in GeoOutcomes \ {"ok"}, off \in DistrictOffsets :
          ResumeDistrictCityGeo(t, r, off)
    \/ \E r \in GeoOutcomes \ {"ok"}, off \in VillageOffsets :
          ResumeVillageCityGeo(t, r, off)
    \/ \E r \in ListOutcomes \ {"ok"} : t.op # "selectProvince" /\ ResumeList(t, r)

(* C27: a failed fetch for a selection at level L degrades only that level: *)
(* neither the step that issues the selection nor the step that handles    *)
(* the failure changes the selection field, the markers, the boundaries or *)
(* the control of a level shallower than L.                                *)
C27_FailureDegradesOnlyItsLevel ==
    [][/\ \A c \in Codes :
            /\ SelectCity(c) => ShallowerUnchangedNext(2)
            /\ SelectDistrict(c) => ShallowerUnchangedNext(3)
            /\ SelectVillage(c) => ShallowerUnchangedNext(4)
       /\ \A t \in BagToSet(tasks) :
            FailedFetchStep(t) => ShallowerUnchangedNext(OpLevel(t.op))]_vars

\* a city was selected and its geo fetch failed: no city marker, while the
\* province keeps its field, its marker, its boundary and its city control
C27_Witness ==
    /\ Quiet
    /\ selectedLocation.city # None
    /\ MarkersOn(mapLayers, "city") = {}
    /\ selectors["district"].opts = Placeholder
    /\ selectedLocation.province # None
    /\ MarkersOn(mapLayers, "province")
          = {MarkerDesc("province", selectedLocation.province,
                        CoordOf(selectedLocation.province))}
    /\ layers["provinceBoundariesLayer"] # Null
    /\ selectors["city"].opts = OptionList(selectedLocation.province)
    /\ selectors["city"].value = selectedLocation.city

----------------------------------------------------------------------------
\* a loading indicator is showing: the spinner in the info panel, or the
\* "Loading..." option in a child control
LoadingShown ==
    \/ info.content = "loading"
    \/ \E s \in ChildSelectors : selectors[s].opts = Loading

(* C28: a loading indicator shows only while a fetch is unresolved: when    *)
(* every fetch issued by the selections has resolved, neither the info     *)
(* panel nor a child control is left in its Loading state.                 *)
(* The code breaks it: selectProvince writes the spinner before its fetch  *)
(* and replaces it only on success with a coordinate or on an exception,   *)
(* and populateCitySelector replaces "Loading..." only on success or on an *)
(* exception, so success:false leaves the indicator showing with nothing   *)
(* in flight.                                                              *)
C28_LoadingEndsWithFetches ==
    Quiet => ~LoadingShown

(* C29: overlays follow the selection: in every quiescent state a marker or *)
(* boundary is on the map for a level only if that level's field of        *)
(* selectedLocation is set.                                                *)
(* The code breaks it: selectProvince(code) nulls the city, district and   *)
(* village fields but removes only the province marker, and only once the  *)
(* new province's response is shown.                                       *)
C29_OverlaysFollowSelection ==
    Quiet =>
       \A l \in 1..4 :
          (\E d \in BagToSet(mapLayers) : d.level = LevelNames[l])
             => selectedLocation[LevelNames[l]] # None

(* C30: whenever the province geo fetch returns success with data, the      *)
(* population of the city control from the city list of that province is   *)
(* started, also when the payload carries no usable coordinate.            *)
(* The code breaks it: the call of populateCitySelector sits inside the    *)
(* test that both coordinates are numbers, so a payload without a usable   *)
(* coordinate ends the handler with the city control untouched.            *)
C30_SuccessPopulatesCityControl ==
    [][\A t \in BagToSet(tasks), pk \in PathKinds :
          /\ ResumeProvinceGeo(t, "ok", pk) => PopulationStartedNext("city", t)
          /\ ResumeProvinceGeo(t, "nocoord", pk) => PopulationStartedNext("city", t)]_vars

----------------------------------------------------------------------------
\* a position lies within `bound` hundredths of a degree, on each axis, of
\* the coordinate of `city`
Near(pos, city, bound) ==
    /\ city # None
    /\ pos.base = city
    /\ pos.dlat >= -bound /\ pos.dlat <= bound
    /\ pos.dlng >= -bound /\ pos.dlng <= bound

\* the offset bound of a district marker and of a village marker, in
\* hundredths of a degree
DistrictBound == 5
VillageBound == 10

\* the step leaves a marker of `level` for t.code near the city that was
\* selected when the invocation t was called
PlacedNearOwnerNext(t, level, bound) ==
    \A d \in MarkersOn(mapLayers', level) :
        d.code = t.code => Near(d.pos, t.owner, bound)

(* C23: whenever a district or village marker is placed, its position is    *)
(* within the offset bound (0.05 degrees per axis for a district, 0.1 for  *)
(* a village) of the coordinate of the city that was selected when the     *)
(* district or village selection was issued, under any interleaving.       *)
(* The code breaks it: the handlers read selectedLocation.city only after  *)
(* the detail request has completed, so a city selected in between is the  *)
(* one whose coordinate the marker is placed near.                         *)
C23_MarkerNearOwningCity ==
    [][\A t \in BagToSet(tasks) :
          /\ \A off \in DistrictOffsets :
                ResumeDistrictCityGeo(t, "ok", off)
                   => PlacedNearOwnerNext(t, "district", DistrictBound)
          /\ \A off \in VillageOffsets :
                ResumeVillageCityGeo(t, "ok", off)
                   => PlacedNearOwnerNext(t, "village", VillageBound)]_vars

----------------------------------------------------------------------------
\* the answer is a response with a 2xx status whose body is JSON text
GoodAnswer(ans) ==
    /\ ans.transport = "ok"
    /\ ans.status \in 200..299
    /\ \E v \in {ObjectV, NullV, Arr(<<>>)} : ans.body = JsonText(v)

(* C26: fetchData issues exactly one HTTP request per call and never        *)
(* retries; a call that has ended returned the parsed body if and only if  *)
(* the transport succeeded, the status was 2xx and the body parsed as      *)
(* JSON, and otherwise threw to its caller without a value.                *)
C26_OneRequestNoRetry ==
    /\ traffic.requests = traffic.calls
    /\ fetchCall.pc = "returned"
          => GoodAnswer(server) /\ JsonText(fetchCall.result) = server.body
    /\ fetchCall.pc = "threw"
          => ~GoodAnswer(server) /\ fetchCall.result = Undefined

\* a second call has ended by throwing on a 404 whose body is JSON, with
\* two requests issued in all
C26_Witness ==
    /\ traffic = [calls |-> 2, requests |-> 2]
    /\ fetchCall.pc = "threw"
    /\ server.transport = "ok"
    /\ server.status = 404
    /\ server.body = JsonText(ObjectV)

----------------------------------------------------------------------------
(* C25: in the version with boundary toggles, after resetMap has run both   *)
(* the province and the city boundary toggle are unchecked.                *)
(* The code breaks it: resetMap reads provinceBoundaryLayer, an identifier *)
(* that no statement declares and that no assignment can create (each      *)
(* assignment follows a read of it in the same block), so every call ends  *)
(* in a ReferenceError before the statements that uncheck the toggles.     *)
C25_ResetUnchecksToggles ==
    script2.last # "none"
       => ~script2.checked["province"] /\ ~script2.checked["city"]

----------------------------------------------------------------------------
\* the boundaries of a level on a map
BoundariesOn(ml, level) ==
    { d \in BagToSet(ml) : d.kind = "boundary" /\ d.level = level }

(* C31: after a province (or city) selection has been applied successfully, *)
(* any boundary polygon on the map for that level was built from the       *)
(* payload of that province (or city); a boundary of a previously selected *)
(* one does not remain, also when the new payload has no path.             *)
(* The code breaks it: show*Boundary removes the old polygon only inside   *)
(* `if (geoData && geoData.path)`, so a payload without a path leaves the  *)
(* previous province's (city's) polygon on the map.                        *)
C31_BoundaryOfCurrentSelection ==
    [][\A t \in BagToSet(tasks), pk \in PathKinds :
          /\ ResumeProvinceGeo(t, "ok", pk)
                => \A d \in BoundariesOn(mapLayers', "province") : d.code = t.code
          /\ ResumeCityGeo(t, "ok", pk)
                => \A d \in BoundariesOn(mapLayers', "city") : d.code = t.code]_vars

----------------------------------------------------------------------------
\* the boundary polygons on a map, with their multiplicities
BoundaryCounts(ml) ==
    [d \in {x \in BagToSet(ml) : x.kind = "boundary"} |-> CopiesIn(d, ml)]

\* the payload has a path, and the path is unparsable or yields no valid ring
NoRingPayload(pk) == pk # "absent" /\ ~Renderable(pk)

(* C32: boundary normalization has no side effect on the map: when the      *)
(* payload handed to showProvinceBoundary or showCityBoundary is           *)
(* unparsable or yields no valid ring, the boundary polygons on the map    *)
(* after the call are exactly those before it.                             *)
(* The code breaks it: the old polygon is taken off the map before the     *)
(* path is parsed, and the early returns do not put it back.               *)
C32_BadPayloadLeavesOverlays ==
    [][\A t \in BagToSet(tasks), pk \in PathKinds :
          NoRingPayload(pk)
             => /\ ResumeProvinceGeo(t, "ok", pk)
                      => BoundaryCounts(mapLayers') = BoundaryCounts(mapLayers)
                /\ ResumeCityGeo(t, "ok", pk)
                      => BoundaryCounts(mapLayers') = BoundaryCounts(mapLayers)]_vars

----------------------------------------------------------------------------
\* the payload denotes a multi-polygon: a non-empty array of rings, each an
\* array of places for points, the first ring starting with a pair
MultiPolygon(p) ==
    /\ p.t = "arr" /\ p.items # <<>>
    /\ \A i \in 1..Len(p.items) : p.items[i].t = "arr"
    /\ p.items[1].items # <<>>
    /\ p.items[1].items[1].t = "arr"

\* the valid points of a ring, in order, as pairs of numbers
ValidPoints(ring) ==
    LET kept == SelectSeq(ring, NumericPair)
    IN [i \in 1..Len(kept) |-> CoercePoint(kept[i])]

\* a ring with its first point appended unless it is closed already
Closed(coords) ==
    IF coords[1] = coords[Len(coords)] THEN coords ELSE Append(coords, coords[1])

\* the rings to render for a multi-polygon: those that keep 3 or more valid
\* points, in input order
RingsToRender(p) ==
    LET all == [i \in 1..Len(p.items) |-> ValidPoints(p.items[i].items)]
        kept == SelectSeq(all, LAMBDA c : Len(c) >= MinRingPoints)
    IN [i \in 1..Len(kept) |-> Closed(kept[i])]

\* the rings on the map after a call of show*Boundary
Rendered == IF outcome = "draw" THEN polygonsOut ELSE <<>>

(* C33: for a multi-polygon payload, the rings rendered are exactly the     *)
(* input rings that keep 3 or more valid points after filtering, in input  *)
(* order, each with its valid points in input order and with the first     *)
(* point appended only when the ring was not already closed.               *)
(* The code breaks it: the filter takes null, "" and true for numbers and  *)
(* parseFloat turns them into NaN, so such a point is kept, the ring never  *)
(* compares as closed, and the renderer refuses the whole payload.         *)
C33_MultiPolygonRings ==
    (outcome \notin {"none", "fed"} /\ MultiPolygon(PathValue(geoPath)))
        => Rendered = RingsToRender(PathValue(geoPath))

----------------------------------------------------------------------------
\* what resetMap establishes before it ends: the default viewport and a map
\* without markers
ResetHolds(v, ml) ==
    /\ v = [center |-> DEFAULT_COORDINATE, zoom |-> DEFAULT_ZOOM]
    /\ \A d \in BagToSet(ml) : d.kind # "marker"

(* C34: a reset issued while selection fetches are in flight persists: the  *)
(* completion of a fetch that was issued before the reset does not take    *)
(* the map out of the configuration the reset put it in (default viewport, *)
(* no marker).                                                             *)
(* The code breaks it: no handler checks, after its await, whether a reset *)
(* has run; the response of a selection made before the reset places its   *)
(* marker and moves the viewport.                                          *)
C34_ResetPersists ==
    [][\A t \in BagToSet(tasks) :
          (Resumes(t) /\ t.reset /\ ResetHolds(view, mapLayers))
             => ResetHolds(view', mapLayers')]_vars

----------------------------------------------------------------------------
\* a suspended invocation without its history markers: the request it awaits
Request(t) == [op |-> t.op, code |-> t.code, pc |-> t.pc, city |-> t.city]

\* number of suspended invocations that await the request k
Awaiting(ts, k) ==
    LET same == { t \in BagToSet(ts) : Request(t) = k }
        Sum[S \in SUBSET same] ==
            IF S = {} THEN 0
            ELSE LET t == CHOOSE x \in S : TRUE
                 IN CopiesIn(t, ts) + Sum[S \ {t}]
    IN Sum[same]

\* the geo requests that the step issues
GeoIssuedNext ==
    { k \in { Request(t) : t \in BagToSet(tasks') } :
        /\ k.pc \in {"geo", "cityGeo"}
        /\ Awaiting(tasks', k) > Awaiting(tasks, k) }

(* C35: map data is loaded lazily: initialisation issues only the province  *)
(* list request, and every geo request of mapManager for a province or a   *)
(* city is preceded by a selection of that province or city: a province    *)
(* geo request is issued by the step that selects that province, a city    *)
(* geo request by the step that selects that city or, for a district or    *)
(* village, for the city in selectedLocation, a field that only a          *)
(* selection of that city sets.                                            *)
C35_GeoOnlyAfterSelection ==
    [][/\ DOMContentLoaded
            => \A t \in BagToSet(tasks') :
                  t.op = "loadProvincesListOnly" /\ t.pc = "list"
       /\ \A k \in GeoIssuedNext :
            CASE k.op = "selectProvince" -> SelectProvince(k.code)
              [] k.op = "selectCity" -> SelectCity(k.code)
              [] OTHER -> k.pc = "cityGeo" /\ k.city # None
                          /\ k.city = selectedLocation.city
       /\ (selectedLocation'.city # selectedLocation.city
              /\ selectedLocation'.city # None)
            => SelectCity(selectedLocation'.city)]_vars

\* a district was selected after its city: the coordinate of that city has
\* been asked for
C35_Witness ==
    \E t \in BagToSet(tasks) :
        /\ t.op = "selectDistrict" /\ t.pc = "cityGeo"
        /\ t.city = selectedLocation.city
        /\ selectors["city"].value = t.city
        /\ provinceSelector.value = selectedLocation.province
        /\ selectedLocation.province # None

----------------------------------------------------------------------------
(* C36: loadDetailedProvinceData never has more than 5 province geo         *)
(* requests in flight at once, and starts the requests of a batch only     *)
(* when every request of the previous batch has resolved.                  *)
C36_BatchesOfFive ==
    [][/\ Cardinality(table'.waiting) <= BatchSize
       /\ (table'.waiting \ table.waiting # {}) => table.waiting = {}]_vars

\* the second batch is under way, the five requests of the first resolved
C36_Witness ==
    /\ table.pc = "batch"
    /\ table.i = BatchSize
    /\ table.waiting # {}
    /\ table.waiting \subseteq (BatchSize + 1)..Len(table.rows)
    /\ \E k \in 1..BatchSize : table.rows[k] = "data"

(* C37: every row of the provinces table leaves its Loading cells once its  *)
(* province's geo request has resolved: the cells show the data on success *)
(* and N/A on any failure, a success:false response included.              *)
(* The code breaks it: the cells are written under `geoResponse.success && *)
(* geoResponse.data` and in the catch block only, so a success:false       *)
(* response leaves "Loading..." in the row.                                *)
C37_RowsLeaveLoading ==
    [][\A k \in 1..NumProvinces, r \in ListOutcomes :
          RowGeoArrives(k, r)
             => table'.rows[k] = IF r = "ok" THEN "data" ELSE "na"]_vars

----------------------------------------------------------------------------
\* the request of the most recent click on Try is unresolved
LatestUnresolved == \E q \in demo.pending : q.click = demo.clicks

(* C38: in the API demo panel, once all requests started by Try clicks have *)
(* resolved, the response body and the status badge shown are those of the *)
(* most recent click, whatever the order of arrival; the badge is Loading  *)
(* only while the request of that click is unresolved.                     *)
(* The code breaks it: tryEndpoint writes the panel when its own request   *)
(* completes, without checking that no later click has been made, so the   *)
(* response that arrives last is the one shown.                            *)
C38_DemoShowsLatestClick ==
    /\ (demo.pending = {} /\ demo.clicks > 0)
          => /\ demo.output.click = demo.clicks
             /\ demo.badge.click = demo.clicks
    /\ demo.badge.kind = "loading" => LatestUnresolved

----------------------------------------------------------------------------
(* C39: a function wrapped by utils.debounce(func, wait) runs only when     *)
(* wait milliseconds have passed with no further call of the wrapper, runs *)
(* once per burst of calls and with the arguments of the last call, and at *)
(* most one timer is pending at any time.                                  *)
C39_DebounceRunsOncePerBurst ==
    [][/\ Cardinality(debounced'.timers) <= 1
       /\ \A tm \in debounced.timers :
            TimerFires(tm)
               => /\ debounced.now >= debounced.lastCall.at + Wait
                  /\ tm.args = debounced.lastCall.args
                  /\ debounced.burst > 0]_vars

\* func has run at least once, and the third call of the wrapper, made Wait
\* or more after the start, has the only pending timer
C39_Witness ==
    /\ debounced.nextId = 4
    /\ debounced.burst = 1
    /\ debounced.now >= Wait
    /\ debounced.timers = {[id |-> 3, due |-> debounced.lastCall.at + Wait,
                            args |-> debounced.lastCall.args]}
    /\ debounced.lastCall.at >= Wait


====
